---------------------------- MODULE Spec2Model ----------------------------
(***************************************************************************)
(* Sajda: the prayer-time engine (src-tauri/src/prayer_engine.rs) and the  *)
(* one-second ticker (src-tauri/src/scheduler.rs).                         *)
(*                                                                         *)
(* Time is the wall clock in whole epoch seconds, as chrono's timestamp()  *)
(* gives it.  A modelled day has DayLen seconds and a modelled minute      *)
(* MinuteLen seconds; the 2-second trigger window and the 5-second wake    *)
(* threshold keep their values from the source.                            *)
(***************************************************************************)
EXTENDS Integers, Sequences, FiniteSets, TLC

(* ------------------------------ bounds -------------------------------- *)
DayLen == 8
MinuteLen == 4
Horizon == 16
DaysPerMonth == 2
MaxBack == 1
TicksPerSec == 2
\* mutexes of the engine that may get poisoned
MaxPoisoned == 1
\* refetch tasks that may be in flight at the same time
MaxTasks == 2
\* the dates generate_random_times is called with: NumYears years from FirstYear
\* on, every month, the days 1..MaxDay
FirstYear == 2024
NumYears == 2
MaxDay == 28
\* the calls after the first one that are counted
MaxLater == 1

(* ------------------------- program constants -------------------------- *)
WAKE_THRESHOLD_SECS == 5
\* the minimum gap of two reminder times, in minutes
MinGap == 90
TriggerWindow == 2
RefetchRadius == 5

MaxAdvance == DayLen

(* Option<T>: None is the empty sequence, Some(x) the one-element one.    *)
None == <<>>
Some(x) == <<x>>

Names == <<"fajr", "syuruk", "dhuhr", "asr", "maghrib", "isha">>
NameSet == {Names[i] : i \in 1..6}

Methods == {"JAKIM", "MWL"}
Coords == {1}

(* ------------------------- local date and time ------------------------ *)
\* now.date_naive(): the local date holding epoch second ts
DateOf(ts) == ts \div DayLen
\* now.second()
SecondOf(ts) == (ts % DayLen) % MinuteLen
\* now.format("%H:%M"): the minute of the day
HourMinute(ts) == (ts % DayLen) \div MinuteLen
\* chrono's "%b": the abbreviated month names, a string being the sequence of
\* its characters
MonthNames ==
  << <<"J","a","n">>, <<"F","e","b">>, <<"M","a","r">>, <<"A","p","r">>,
     <<"M","a","y">>, <<"J","u","n">>, <<"J","u","l">>, <<"A","u","g">>,
     <<"S","e","p">>, <<"O","c","t">>, <<"N","o","v">>, <<"D","e","c">> >>
\* format("%b-%Y"): the month-year tag of a date, date 0 being the first day of
\* January of FirstYear
MonthTag(d) ==
  LET m == d \div DaysPerMonth
  IN  <<MonthNames[(m % 12) + 1], FirstYear + (m \div 12)>>
\* format("%d-%b-%Y"): day of the month, then the month-year tag
DateKey(d) == <<(d % DaysPerMonth) + 1, MonthTag(d)>>
\* date.succ_opt()
Succ(d) == d + 1

(* Rust's integer / and % truncate towards zero.                          *)
TruncDiv(a, b) == IF a >= 0 THEN a \div b ELSE -((-a) \div b)
TruncRem(a, b) == a - b * TruncDiv(a, b)

(* ------------------------- schedules and caches ----------------------- *)
Datapoint(t) ==
  [fajr |-> t[1], syuruk |-> t[2], dhuhr |-> t[3],
   asr |-> t[4], maghrib |-> t[5], isha |-> t[6]]

Shift(t, by) == [i \in 1..6 |-> t[i] + by]

\* the match on the method name that picks the salah parameters
ParamsFor(method_name) ==
  IF method_name = "MWL" THEN "MuslimWorldLeague" ELSE "Custom18"

\* salah's PrayerTimes::new(date, coords, params): the six times of a date
CalcOffsets(params) ==
  IF params = "MuslimWorldLeague" THEN <<1, 2, 4, 5, 6, 7>>
                                  ELSE <<2, 3, 4, 5, 6, 7>>

PrayerTimes(date, coords, params) ==
  Shift(CalcOffsets(params), date * DayLen + (IF coords = 1 THEN 0 ELSE 1))

\* the feed's datapoint of a date, as the JAKIM zone of a coordinate gives it
FeedOffsets(coords) ==
  IF coords = 1 THEN <<2, 4, 5, 6, 7, 7>> ELSE <<1, 3, 4, 5, 6, 8>>

FeedEntry(coords, d) == Datapoint(Shift(FeedOffsets(coords), d * DayLen))

\* a JakimCache built from a feed response for `coords` that lists `dates`
Snapshot(zone, coords, dates) ==
  [zone |-> zone, lat_lng |-> coords,
   month_hash |-> MonthTag(CHOOSE d \in dates : TRUE),
   prayers |-> [k \in {DateKey(d) : d \in dates} |->
                  FeedEntry(coords, CHOOSE d \in dates : DateKey(d) = k)]]

\* a whole month for coordinate 1; a partial response for coordinate 2
SnapA == Snapshot("WLY01", 1, 0..(DaysPerMonth - 1))
SnapB == Snapshot("SGR01", 2, {1})
Snapshots == {SnapA, SnapB}

\* The feed's timestamps are absolute, its keys are days of the month, and the
\* engine matches the keys against the machine's local date.  ZoneLag is how far
\* the local time of the machine is behind the local time of the feed's zone.
ZoneLag == DayLen - 2
\* a whole month of a zone that far ahead of the machine
SnapFar ==
  [zone |-> "SBH07", lat_lng |-> 2, month_hash |-> MonthTag(0),
   prayers |-> [k \in {DateKey(d) : d \in 0..(DaysPerMonth - 1)} |->
                  Datapoint(Shift(FeedOffsets(1),
                      (CHOOSE d \in 0..(DaysPerMonth - 1) : DateKey(d) = k) * DayLen
                        - ZoneLag))]]

\* a cache of the month before, for coordinate 1
SnapOld == Snapshot("WLY01", 1, (-DaysPerMonth)..(-1))

\* Coordinates are places on a line: Km is a place's position in kilometres.
\* Place 3 lies at the refetch radius from place 1, place 4 just beyond it.
Places == {1, 2, 3, 4}
Km(c) == CASE c = 1 -> 0 [] c = 2 -> 60 [] c = 3 -> 5 [] OTHER -> 6
\* the haversine distance of two places, in kilometres
Distance(a, b) == IF Km(a) >= Km(b) THEN Km(a) - Km(b) ELSE Km(b) - Km(a)

\* the (name, time) list the ticker and get_next_prayer iterate
Prayers(s) ==
  << <<"fajr", s.fajr>>, <<"syuruk", s.syuruk>>, <<"dhuhr", s.dhuhr>>,
     <<"asr", s.asr>>, <<"maghrib", s.maghrib>>, <<"isha", s.isha>> >>

(* ------------------------------ variants ------------------------------ *)
(* Wrong versions of single steps of the program.  Each of the properties *)
(* at the end of the module fails when one of them takes the place of the *)
(* step it is a variant of.                                                *)
\* IsNewDay that sees a new day on the first tick only
IsNewDayFirstTickOnly(ld, current_date) == ld = None

\* MarkPast that keeps none of the names the set held
MarkPastForgetful(trig, sched, current_timestamp) ==
  {Names[j] : j \in {k \in 1..6 : current_timestamp > Prayers(sched)[k][2]}}

\* ShouldFire without the membership test
ShouldFireInWindow(current_timestamp, time, trig, prayer_key) ==
  current_timestamp >= time /\ current_timestamp < time + TriggerWindow

\* InWindow without an end: every time that has passed is in the window
InWindowUnbounded(current_timestamp, time) == current_timestamp >= time

\* InWindow that opens one second late
InWindowStrict(current_timestamp, time) ==
  current_timestamp > time /\ current_timestamp < time + TriggerWindow

\* MarkFired that inserts nothing
MarkFiredNever(trig, prayer_key) == trig

\* ResumeAt that leaves the loop when a collaborator has failed
ResumeAtAbort(i, failed) == IF failed THEN 7 ELSE i + 1

\* Notifies without the exemption of "syuruk"
NotifiesAll(name) == TRUE

\* IsUpcoming that also accepts a time equal to now
IsUpcomingOrNow(time_ts, now_ts) == time_ts >= now_ts

\* TomorrowFajr that prefers the computed time to the cache's
TomorrowFajrComputedFirst(cch, crd, strat, now_ts) ==
  LET tomorrow == Succ(DateOf(now_ts))
      tom_key == DateKey(tomorrow)
  IN IF crd # None THEN Some(PrayerTimes(tomorrow, crd[1], strat)[1])
     ELSE IF cch # None /\ tom_key \in DOMAIN cch[1].prayers
          THEN Some(cch[1].prayers[tom_key].fajr)
          ELSE None

\* TooFar that also refetches at the radius itself
TooFarOrAt(distance) == distance >= RefetchRadius

\* ResolveZoneName that never looks the code up
ResolveZoneNameRaw(zns, code) == <<code>>

\* Fallback that computes for a default coordinate when none is set
FallbackDefault(crd, strat, date) ==
  LET prayers == PrayerTimes(date, IF crd = None THEN 1 ELSE crd[1], strat)
  IN Some([fajr |-> prayers[1], syuruk |-> prayers[2], dhuhr |-> prayers[3],
           asr |-> prayers[4], maghrib |-> prayers[5], isha |-> prayers[6],
           source |-> "calculated-fallback", zone_code |-> "CALC",
           zone_name |-> <<"lat,lng", IF crd = None THEN 1 ELSE crd[1]>>])

\* SetCache that inserts the new datapoints into the map the cache holds
SetCacheMerge(cch, new_cache) ==
  IF cch = None THEN Some(new_cache)
  ELSE Some([new_cache EXCEPT !.prayers = new_cache.prayers @@ cch[1].prayers])

(* ----------------------------- PrayerEngine --------------------------- *)
\* `distance > 5.0`
TooFar(distance) == distance > RefetchRadius

\* needs_refetch, as a function of the cache and the clock it reads
NeedsRefetch(cch, clk, c) ==
  IF cch # None
  THEN IF cch[1].month_hash # MonthTag(DateOf(clk)) THEN TRUE
       ELSE IF TooFar(Distance(c, cch[1].lat_lng)) THEN TRUE ELSE FALSE
  ELSE TRUE

\* resolve_zone_name: "daerah, negeri" of the code's entry, else the code itself
ResolveZoneName(zns, code) ==
  IF zns # None /\ code \in DOMAIN zns[1]
  THEN <<zns[1][code].daerah, zns[1][code].negeri>>
  ELSE <<code>>

\* "1. Try Cache (ONLY if method is JAKIM)": the three nested tests
CacheApplies(method, cch, date_key) ==
  method = "JAKIM" /\ cch # None /\ date_key \in DOMAIN cch[1].prayers

\* "2. Fallback to Calculation": `coords.as_ref()?`, then the computed schedule
Fallback(crd, strat, date) ==
  IF crd = None THEN None
  ELSE LET prayers == PrayerTimes(date, crd[1], strat)
       IN Some([fajr |-> prayers[1], syuruk |-> prayers[2], dhuhr |-> prayers[3],
                asr |-> prayers[4], maghrib |-> prayers[5], isha |-> prayers[6],
                source |-> "calculated-fallback", zone_code |-> "CALC",
                zone_name |-> <<"lat,lng", crd[1]>>])

\* get_today_schedule, as a function of the engine fields and the clock it reads
TodaySchedule(method, cch, crd, strat, zns, clk) ==
  LET date_key == DateKey(DateOf(clk)) IN
  IF CacheApplies(method, cch, date_key)
  THEN LET c == cch[1]
           p == c.prayers[date_key]
       IN Some([fajr |-> p.fajr, syuruk |-> p.syuruk, dhuhr |-> p.dhuhr,
                asr |-> p.asr, maghrib |-> p.maghrib, isha |-> p.isha,
                source |-> "jakim-api", zone_code |-> c.zone,
                zone_name |-> ResolveZoneName(zns, c.zone)])
  ELSE Fallback(crd, strat, DateOf(clk))

\* the test of get_next_prayer's scan: is this time still to come
IsUpcoming(time_ts, now_ts) == time_ts > now_ts

\* the scan `for (name, time_ts) in list.iter()`: the first index that is
\* still to come, from index i on; 0 when the loop falls through
RECURSIVE ScanFrom(_, _, _)
ScanFrom(list, i, now_ts) ==
  IF i > Len(list) THEN 0
  ELSE IF IsUpcoming(list[i][2], now_ts) THEN i
  ELSE ScanFrom(list, i + 1, now_ts)

\* hours, minutes and seconds of `diff`, as format!("{:02}:{:02}:{:02}") gets them
Remaining(diff) ==
  <<TruncDiv(diff, 3600), TruncDiv(TruncRem(diff, 3600), 60), TruncRem(diff, 60)>>

MakeNext(name, ts, now_ts) ==
  [name |-> name, time |-> HourMinute(ts), remaining |-> Remaining(ts - now_ts),
   timestamp |-> ts]

\* the roll-over of get_next_prayer: tomorrow's fajr from the cache, else computed
TomorrowFajr(cch, crd, strat, now_ts) ==
  LET tomorrow == Succ(DateOf(now_ts))
      tom_key == DateKey(tomorrow)
      found == cch # None /\ tom_key \in DOMAIN cch[1].prayers
  IN IF found THEN Some(cch[1].prayers[tom_key].fajr)
     ELSE IF crd # None THEN Some(PrayerTimes(tomorrow, crd[1], strat)[1])
     ELSE None

\* get_next_prayer: sched_clk is the clock get_today_schedule reads, now_ts the
\* clock read after it
NextPrayer(method, cch, crd, strat, zns, sched_clk, now_ts) ==
  LET schedule == TodaySchedule(method, cch, crd, strat, zns, sched_clk) IN
  IF schedule = None THEN None
  ELSE LET list == Prayers(schedule[1])
           i == ScanFrom(list, 1, now_ts)
       IN IF i # 0 THEN Some(MakeNext(list[i][1], list[i][2], now_ts))
          ELSE LET tom_fajr == TomorrowFajr(cch, crd, strat, now_ts)
               IN IF tom_fajr = None THEN None
                  ELSE Some(MakeNext("fajr", tom_fajr[1], now_ts))

\* The mutexes get_today_schedule locks with `.lock().unwrap()` on the path it
\* takes: current_method, the cache under "JAKIM", the zone table on a cache hit,
\* else the coordinates and, when they are set, the strategy.
LocksOfToday(method, cch, crd, clk) ==
  {"current_method"}
    \cup (IF method = "JAKIM" THEN {"cache"} ELSE {})
    \cup (IF CacheApplies(method, cch, DateKey(DateOf(clk))) THEN {"zones"}
          ELSE {"coordinates"} \cup (IF crd # None THEN {"strategy"} ELSE {}))

\* the mutexes get_next_prayer locks: those of get_today_schedule and, on the
\* roll-over, the cache, then the coordinates and the strategy if the cache has
\* no entry for tomorrow
LocksOfNext(method, cch, crd, strat, zns, clk) ==
  LET schedule == TodaySchedule(method, cch, crd, strat, zns, clk)
      tom_key == DateKey(Succ(DateOf(clk)))
  IN LocksOfToday(method, cch, crd, clk)
       \cup (IF schedule = None \/ ScanFrom(Prayers(schedule[1]), 1, clk) # 0 THEN {}
             ELSE {"cache"}
                    \cup (IF cch # None /\ tom_key \in DOMAIN cch[1].prayers THEN {}
                          ELSE {"coordinates"}
                                 \cup (IF crd # None THEN {"strategy"} ELSE {})))

(* ------------------------------- state -------------------------------- *)
VARIABLES
  coordinates,      \* PrayerEngine.coordinates: Option<Coordinates>
  strategy,         \* PrayerEngine.strategy: Parameters
  cache,            \* PrayerEngine.cache: Option<JakimCache>
  current_method,   \* PrayerEngine.current_method
  clock,            \* the wall clock, Local::now()
  triggered_today,  \* start_ticker: HashSet of fired names
  last_date,        \* start_ticker: Option<NaiveDate>
  last_tick_time,   \* start_ticker: Option<Instant>, counted from the last tick
  pc,               \* where the ticker's loop body is
  now,              \* the tick's `now`, read once per tick
  detected_wake,    \* the tick's `detected_wake`
  schedule,         \* the schedule the trigger step holds
  idx,              \* the name the trigger step's loop is at
  system_wake,      \* "system-wake" events emitted in this tick
  displayed,        \* the display step has just emitted "prayer-update"
  notified,         \* names whose notification was requested in this tick
  played,           \* names whose audio playback was requested in this tick
  reminder_trigger, \* "reminder-trigger" events emitted in this tick
  collab_failed,    \* a notification or audio call of this tick returned an error
  prev_tick_date,   \* history: the local date of the previous tick
  date_changed,     \* history: the tick that has just begun saw a new local date
  dropped_some,     \* history: the day-rollover step has just removed a name
  alerts_on_date,   \* history: alerts per name since the date last changed
  reminded,         \* history: the date and minute of the last "reminder-trigger",
                    \* kept while the ticks stay in that minute
  next_prayer,      \* what the last call of get_next_prayer returned, if any
  zones,            \* PrayerEngine.zones: Option<ZonesMap>
  poisoned,         \* the engine's mutexes that are poisoned
  held,             \* the engine's mutexes each thread holds a guard of
  calls,            \* the calls of the engine that are followed step by step
  todo,             \* what each thread has yet to do of the operation it runs
  today_schedule,   \* what the last call of get_today_schedule returned, if any
  refetch,          \* the last call of needs_refetch: its argument and its result
  tasks,            \* the refetch tasks update_coordinates has spawned
  last_update,      \* history: the snapshot the last update_cache call was given
  persisted,        \* the file jakim_cache.json, as load_cache would read it
  gen_date,         \* generate_random_times: its arguments (year, month, day)
  gen_pc,           \* generate_random_times: where its body is
  times,            \* generate_random_times: the Vec<u32> `times`
  gen_result,       \* generate_random_times: the Vec<String> it returned, if any
  gen_build,        \* whether the build checks overflow, once a call has shown it
  gen_first,        \* history: the arguments and the outcome of the first call,
                    \* and how many calls were made after it (up to MaxLater)
  since_last_tick,  \* history: what last_tick.elapsed() was at the last tick,
                    \* in 1/TicksPerSec seconds, if there was a tick before it
  before_tick       \* history: what the last tick began from, if a tick came
                    \* before it: that tick's `now`, and triggered_today as
                    \* that tick left it

engineVars == <<coordinates, strategy, cache, zones, current_method>>
tickerVars == <<triggered_today, last_date, last_tick_time, pc, now,
                detected_wake, schedule, idx>>
outVars == <<system_wake, displayed, notified, played, reminder_trigger,
             collab_failed>>
histVars == <<prev_tick_date, date_changed, dropped_some, alerts_on_date,
             reminded>>
callVars == <<next_prayer, today_schedule, refetch>>
taskVars == <<tasks, last_update, persisted>>
lockVars == <<held, todo, calls>>
genVars == <<gen_date, gen_pc, times, gen_result, gen_build, gen_first>>
vars == <<engineVars, clock, tickerVars, outVars, histVars, callVars, taskVars,
          genVars, poisoned, lockVars, since_last_tick, before_tick>>

\* engine.get_today_schedule() and engine.get_next_prayer() on the live engine
GetTodaySchedule ==
  TodaySchedule(current_method, cache, coordinates, strategy, zones, clock)
GetNextPrayer ==
  NextPrayer(current_method, cache, coordinates, strategy, zones, clock, clock)

\* the threads whose locking is followed: the update_coordinates command, the
\* refetch task it spawns, and the ticker
Threads == {"command", "task", "ticker"}

\* the slots of the refetch tasks that may run at the same time
TaskIds == 1..MaxTasks
\* a slot no task runs in
NoTask == [st |-> "none", lat_lng |-> 0, new_cache |-> None]

\* no set_method call, no get_today_schedule call and no get_next_prayer call
\* in progress
NoCalls ==
  [set_pc |-> "idle", method_name |-> "", before |-> None,
   get_pc |-> "idle", result |-> None, lookup |-> None]

\* PrayerEngine::new and the locals of start_ticker before its loop
InitProgram ==
  /\ coordinates = None
  /\ current_method \in Methods
  /\ strategy = ParamsFor(current_method)
  /\ cache \in {None} \cup {Some(s) : s \in Snapshots}
  /\ clock \in 0..(Horizon - 1)
  /\ triggered_today = {}
  /\ last_date = None
  /\ last_tick_time = None
  /\ pc = "idle"
  /\ now = 0
  /\ detected_wake = FALSE
  /\ schedule = None
  /\ idx = 0
  /\ system_wake = 0
  /\ displayed = FALSE
  /\ notified = {}
  /\ played = {}
  /\ reminder_trigger = 0
  /\ collab_failed = FALSE
  /\ prev_tick_date = None
  /\ date_changed = FALSE
  /\ dropped_some = FALSE
  /\ alerts_on_date = [n \in NameSet |-> 0]
  /\ reminded = None
  /\ next_prayer = None
  /\ zones = None
  /\ today_schedule = None
  /\ refetch = None

\* the program after construction: no refetch task runs, and
\* generate_random_times has not been called
Init ==
  /\ InitProgram
  /\ tasks = [t \in TaskIds |-> NoTask]
  /\ last_update = None
  /\ persisted = cache
  /\ gen_date = None
  /\ gen_pc = "idle"
  /\ times = <<>>
  /\ gen_result = None
  /\ gen_build = None
  /\ gen_first = None
  /\ poisoned = {}
  /\ held = [t \in Threads |-> {}]
  /\ calls = NoCalls
  /\ todo = [t \in Threads |-> <<>>]
  /\ since_last_tick = None
  /\ before_tick = None

(* ------------------------ PrayerEngine: writers ----------------------- *)
\* PrayerEngine::update_coordinates
UpdateCoordinates(c) ==
  /\ coordinates' = Some(c)
  /\ UNCHANGED <<strategy, cache, zones, current_method>>
  /\ UNCHANGED <<clock, tickerVars, outVars, histVars, callVars>>
  /\ UNCHANGED <<taskVars, genVars, poisoned, lockVars, since_last_tick, before_tick>>

\* `*c = Some(new_cache)`, done while the cache's mutex is held: the value the
\* cache has after update_cache, from the value it had and the argument
SetCache(cch, new_cache) == Some(new_cache)

\* PrayerEngine::update_cache: the whole value is replaced
UpdateCache(new_cache) ==
  /\ cache' = SetCache(cache, new_cache)
  /\ UNCHANGED <<coordinates, strategy, zones, current_method>>
  /\ UNCHANGED <<clock, tickerVars, outVars, histVars, callVars>>
  /\ UNCHANGED <<taskVars, genVars, poisoned, lockVars, since_last_tick, before_tick>>

\* a variant of SetMethod that also drops the cache
SetMethodDropCache(method_name) ==
  /\ strategy' = ParamsFor(method_name)
  /\ current_method' = method_name
  /\ cache' = None
  /\ UNCHANGED <<coordinates, zones>>
  /\ UNCHANGED <<clock, tickerVars, outVars, histVars, callVars>>
  /\ UNCHANGED <<taskVars, genVars, poisoned, lockVars, since_last_tick, before_tick>>

\* PrayerEngine::set_method
SetMethod(method_name) ==
  /\ strategy' = ParamsFor(method_name)
  /\ current_method' = method_name
  /\ UNCHANGED <<coordinates, cache, zones>>
  /\ UNCHANGED <<clock, tickerVars, outVars, histVars, callVars>>
  /\ UNCHANGED <<taskVars, genVars, poisoned, lockVars, since_last_tick, before_tick>>

(* ------------------------------ the ticker ---------------------------- *)
\* Duration::as_secs of a duration counted in 1/TicksPerSec seconds
AsSecs(d) == d \div TicksPerSec

\* the gaps between two ticks the model tries: 1 s, 5 s, a fraction over 5 s, 6 s
Elapsed == {TicksPerSec, WAKE_THRESHOLD_SECS * TicksPerSec,
            WAKE_THRESHOLD_SECS * TicksPerSec + 1,
            (WAKE_THRESHOLD_SECS + 1) * TicksPerSec}

\* detected_wake
IsWake(last_tick, elapsed) ==
  IF last_tick # None THEN AsSecs(elapsed) > WAKE_THRESHOLD_SECS ELSE FALSE

\* the wake loop: every name whose time is before current_timestamp is inserted
MarkPast(trig, sched, current_timestamp) ==
  trig \cup {Prayers(sched)[i][1] : i \in
               {j \in 1..6 : current_timestamp > Prayers(sched)[j][2]
                             /\ Prayers(sched)[j][1] \notin trig}}

\* `last_date != Some(current_date)`
IsNewDay(ld, current_date) == ld # Some(current_date)

\* in_window
InWindow(current_timestamp, time) ==
  current_timestamp >= time /\ current_timestamp < time + TriggerWindow

\* `in_window && !triggered_today.contains(&prayer_key)`
ShouldFire(current_timestamp, time, trig, prayer_key) ==
  InWindow(current_timestamp, time) /\ prayer_key \notin trig

\* triggered_today.insert(prayer_key), the first statement of the if body
MarkFired(trig, prayer_key) == trig \cup {prayer_key}

\* `name != "syuruk"` guards the notification
Notifies(name) == name # "syuruk"

\* `mode != "mute" && name != "syuruk"`, then `audio_state.is_some()`
WantsAudio(mode, name, device) == mode # "mute" /\ name # "syuruk" /\ device

\* the loop `for (name, time) in prayers` from index i on: the first index whose
\* if body runs, 0 when the loop ends without one
RECURSIVE NextFiring(_, _, _, _)
NextFiring(list, i, trig, current_timestamp) ==
  IF i > Len(list) THEN 0
  ELSE IF ShouldFire(current_timestamp, list[i][2], trig, list[i][1]) THEN i
  ELSE NextFiring(list, i + 1, trig, current_timestamp)

\* where the loop goes on after the if body of index i: a collaborator's error
\* (`failed`) was dropped by `let _ =`, so the next index it is
ResumeAt(i, failed) == i + 1

\* The top of the loop body.  interval.tick().await returns: now_instant,
\* detected_wake, last_tick_time, now; then `if detected_wake { ... }` marks the
\* past prayers and emits "system-wake"; then "Reset triggered set at midnight".
\* The wall clock moved by adv while the task waited.  `let _ = app.emit(..)`
\* drops the emit's result, so its outcome is no input of the step.
TickStep(elapsed, adv) ==
  /\ pc = "idle"
  /\ clock + adv \in 0..(Horizon - 1)
  /\ clock' = clock + adv
  /\ detected_wake' = IsWake(last_tick_time, elapsed)
  /\ last_tick_time' = Some(0)
  /\ now' = clock'
  /\ LET today == TodaySchedule(current_method, cache, coordinates, strategy, zones,
                            clock')
         marked == IF detected_wake' /\ today # None
                   THEN MarkPast(triggered_today, today[1], now')
                   ELSE triggered_today
     IN IF IsNewDay(last_date, DateOf(now'))
        THEN /\ triggered_today' = {}
             /\ last_date' = Some(DateOf(now'))
             /\ dropped_some' = (marked # {})
        ELSE /\ triggered_today' = marked
             /\ UNCHANGED <<last_date, dropped_some>>
  /\ system_wake' = IF detected_wake' THEN 1 ELSE 0
  /\ reminder_trigger' = 0
  /\ pc' = "display"
  /\ date_changed' = (prev_tick_date # Some(DateOf(now')))
  /\ prev_tick_date' = Some(DateOf(now'))
  /\ alerts_on_date' = IF date_changed' THEN [n \in NameSet |-> 0] ELSE alerts_on_date
  /\ reminded' = IF reminded = Some(<<DateOf(now'), HourMinute(now')>>)
                 THEN reminded ELSE None
  /\ displayed' = FALSE
  /\ UNCHANGED <<engineVars, schedule, idx, notified, played, collab_failed,
                 callVars>>
  /\ UNCHANGED <<taskVars, genVars, poisoned, lockVars>>

\* the step as the program takes it
TickBegin(elapsed, adv) ==
  /\ TickStep(elapsed, adv)
  /\ UNCHANGED <<since_last_tick, before_tick>>

\* "1. TRAY & FRONTEND UPDATE": the tray title and "prayer-update" carry the
\* value get_next_prayer returns, if it returns one; the results of set_title
\* and emit are dropped
Display ==
  /\ pc = "display"
  /\ displayed' = (GetNextPrayer # None)
  /\ pc' = "trigger"
  /\ dropped_some' = FALSE
  /\ date_changed' = FALSE
  /\ UNCHANGED <<engineVars, clock, triggered_today, last_date, last_tick_time, now,
                 detected_wake, schedule, idx, system_wake, notified, played,
                 reminder_trigger, collab_failed, prev_tick_date, alerts_on_date,
                 reminded, callVars>>
  /\ UNCHANGED <<taskVars, genVars, poisoned, lockVars, since_last_tick, before_tick>>

\* the loop of "2. TRIGGER ACTIONS" runs from index i to the next name that
\* fires, inserts that name and stops before its side effects; or runs out
RunLoopFrom(sched, i) ==
  LET j == NextFiring(Prayers(sched[1]), i, triggered_today, now) IN
  IF j # 0
  THEN /\ triggered_today' = MarkFired(triggered_today, Prayers(sched[1])[j][1])
       /\ schedule' = sched
       /\ idx' = j
       /\ pc' = "alert"
  ELSE /\ schedule' = sched
       /\ idx' = 0
       /\ pc' = "reminder"
       /\ UNCHANGED triggered_today

\* a variant of TriggerRead that forgets the fired names when there is no schedule
TriggerReadForgetful ==
  /\ pc = "trigger"
  /\ IF GetTodaySchedule # None
     THEN RunLoopFrom(GetTodaySchedule, 1)
     ELSE /\ pc' = "reminder"
          /\ triggered_today' = {}
          /\ UNCHANGED <<schedule, idx>>
  /\ displayed' = FALSE
  /\ UNCHANGED <<engineVars, clock, last_date, last_tick_time, now,
                 detected_wake, system_wake, notified, played,
                 reminder_trigger, collab_failed, histVars, callVars>>
  /\ UNCHANGED <<taskVars, genVars, poisoned, lockVars, since_last_tick, before_tick>>

\* "2. TRIGGER ACTIONS": `if let Some(schedule) = engine.get_today_schedule()`
TriggerRead ==
  /\ pc = "trigger"
  /\ IF GetTodaySchedule # None
     THEN RunLoopFrom(GetTodaySchedule, 1)
     ELSE /\ pc' = "reminder"
          /\ UNCHANGED <<triggered_today, schedule, idx>>
  /\ displayed' = FALSE
  /\ UNCHANGED <<engineVars, clock, last_date, last_tick_time, now,
                 detected_wake, system_wake, notified, played,
                 reminder_trigger, collab_failed, histVars, callVars>>
  /\ UNCHANGED <<taskVars, genVars, poisoned, lockVars, since_last_tick, before_tick>>

\* `now.second() == 0`, is_reminders_enabled() and active_times.contains(&current_hm)
Reminds(now_ts, enabled, active_times) ==
  SecondOf(now_ts) = 0 /\ enabled /\ HourMinute(now_ts) \in active_times

\* the rest of the if body (settings, notification, audio), then the loop goes on;
\* a call that is not made has no result to fail with
FireAlert(mode, device, notify_ok, audio_res) ==
  /\ pc = "alert"
  /\ Notifies(Prayers(schedule[1])[idx][1]) \/ notify_ok
  /\ WantsAudio(mode, Prayers(schedule[1])[idx][1], device) \/ audio_res = "ok"
  /\ LET name == Prayers(schedule[1])[idx][1]
         audio == WantsAudio(mode, name, device)
         failed == \/ (Notifies(name) /\ ~notify_ok)
                   \/ (audio /\ audio_res # "ok")
     IN /\ notified' = IF Notifies(name) THEN notified \cup {name} ELSE notified
        /\ played' = IF audio /\ audio_res # "path_err"
                     THEN played \cup {name} ELSE played
        /\ alerts_on_date' =
             IF Notifies(name) \/ audio
             THEN [alerts_on_date EXCEPT ![name] = IF @ < 2 THEN @ + 1 ELSE @]
             ELSE alerts_on_date
        /\ collab_failed' = (collab_failed \/ failed)
        /\ RunLoopFrom(schedule, ResumeAt(idx, failed))
  /\ UNCHANGED <<engineVars, clock, last_date, last_tick_time, now,
                 detected_wake, system_wake, displayed, reminder_trigger,
                 prev_tick_date, date_changed, dropped_some, reminded, callVars>>
  /\ UNCHANGED <<taskVars, genVars, poisoned, lockVars, since_last_tick, before_tick>>

\* "3. DAILY REMINDERS (Check every minute)", and the end of the loop body: its
\* locals are dropped and the task waits for the next tick of the interval.
\* The record of the tick's alerts ends with the tick.
ReminderStep(enabled, active_times) ==
  /\ pc = "reminder"
  /\ reminder_trigger' =
       IF Reminds(now, enabled, active_times)
       THEN reminder_trigger + 1 ELSE reminder_trigger
  /\ pc' = "idle"
  /\ now' = 0
  /\ detected_wake' = FALSE
  /\ schedule' = None
  /\ idx' = 0
  /\ system_wake' = 0
  /\ notified' = {}
  /\ played' = {}
  /\ collab_failed' = FALSE
  /\ UNCHANGED <<engineVars, clock, triggered_today, last_date, last_tick_time,
                 displayed, prev_tick_date, date_changed, dropped_some,
                 alerts_on_date, callVars>>
  /\ UNCHANGED <<taskVars, genVars, poisoned, lockVars, since_last_tick, before_tick>>

\* the step, with no record kept of the signals
Reminder(enabled, active_times) ==
  /\ ReminderStep(enabled, active_times)
  /\ UNCHANGED reminded

Modes == {"mute", "adhan"}
AudioResults == {"ok", "path_err", "play_err"}
ReminderSets == SUBSET (0..((DayLen \div MinuteLen) - 1))

\* The engine's writers run in other threads, at any time.  A write that falls
\* between two steps of the ticker that do not read the engine gives the same
\* behaviour as the write moved after them, so the writers are interleaved only
\* where the ticker reads the engine next.
BeforeEngineRead == pc \in {"idle", "display", "trigger"}

EngineWrite ==
  \/ \E c \in Coords : UpdateCoordinates(c)
  \/ \E s \in Snapshots : UpdateCache(s)
  \/ \E m \in Methods : SetMethod(m)

Next ==
  \/ BeforeEngineRead /\ EngineWrite
  \/ \E e \in Elapsed, adv \in (-MaxBack)..MaxAdvance : TickBegin(e, adv)
  \/ Display
  \/ TriggerRead
  \/ \E mode \in Modes, device, notify_ok \in BOOLEAN, audio_res \in AudioResults :
       FireAlert(mode, device, notify_ok, audio_res)
  \/ \E enabled \in BOOLEAN, active_times \in ReminderSets :
       Reminder(enabled, active_times)

Spec == Init /\ [][Next]_vars

(* ---------------------------- the reminders --------------------------- *)
\* the step, with the date and minute of its signal recorded
ReminderLogged(enabled, active_times) ==
  /\ ReminderStep(enabled, active_times)
  /\ reminded' = IF Reminds(now, enabled, active_times)
                 THEN Some(<<DateOf(now), HourMinute(now)>>) ELSE reminded

\* the ticker alone, the engine's writers at rest, with every signal recorded
NextReminder ==
  \/ \E e \in Elapsed, adv \in (-MaxBack)..MaxAdvance : TickBegin(e, adv)
  \/ Display
  \/ TriggerRead
  \/ \E mode \in Modes, device, notify_ok \in BOOLEAN, audio_res \in AudioResults :
       FireAlert(mode, device, notify_ok, audio_res)
  \/ \E enabled \in BOOLEAN, active_times \in ReminderSets :
       ReminderLogged(enabled, active_times)

SpecReminder == Init /\ [][NextReminder]_vars

(* --------------------------- wake detection --------------------------- *)
\* the top of the loop body, with what last_tick.elapsed() was recorded: the
\* first tick has no last_tick to measure from
TickBeginLogged(elapsed, adv) ==
  /\ TickStep(elapsed, adv)
  /\ since_last_tick' = IF last_tick_time = None THEN None ELSE Some(elapsed)
  /\ UNCHANGED before_tick

\* the ticker alone, the engine's writers at rest, with every gap recorded
NextWake ==
  \/ \E e \in Elapsed, adv \in (-MaxBack)..MaxAdvance : TickBeginLogged(e, adv)
  \/ Display
  \/ TriggerRead
  \/ \E mode \in Modes, device, notify_ok \in BOOLEAN, audio_res \in AudioResults :
       FireAlert(mode, device, notify_ok, audio_res)
  \/ \E enabled \in BOOLEAN, active_times \in ReminderSets :
       Reminder(enabled, active_times)

SpecWake == Init /\ [][NextWake]_vars

(* --------------------- what two ticks have between them --------------- *)
\* the top of the loop body, with the `now` of the tick before and the set that
\* tick left recorded: the wall clock is read once per tick, so before this tick
\* it shows that `now`
TickBeginTraced(elapsed, adv) ==
  /\ TickStep(elapsed, adv)
  /\ before_tick' = IF last_tick_time = None THEN None
                    ELSE Some([now |-> clock, triggered |-> triggered_today])
  /\ UNCHANGED since_last_tick

\* the ticker alone, the engine's writers at rest, with the tick before recorded
NextTraced ==
  \/ \E e \in Elapsed, adv \in (-MaxBack)..MaxAdvance : TickBeginTraced(e, adv)
  \/ Display
  \/ TriggerRead
  \/ \E mode \in Modes, device, notify_ok \in BOOLEAN, audio_res \in AudioResults :
       FireAlert(mode, device, notify_ok, audio_res)
  \/ \E enabled \in BOOLEAN, active_times \in ReminderSets :
       Reminder(enabled, active_times)

SpecTraced == Init /\ [][NextTraced]_vars

(* ------------------------- the ticker at rest ------------------------- *)
\* A tick of the interval that comes one second after the one before
\* (Duration::from_secs(1)), with the wall clock at most one second further and
\* on the same local date.
SteadyTick(adv) ==
  /\ DateOf(clock + adv) = DateOf(clock)
  /\ TickBegin(TicksPerSec, adv)

\* the ticker alone, on time, within one local date, the engine's writers at rest
NextSteady ==
  \/ \E adv \in {0, 1} : SteadyTick(adv)
  \/ Display
  \/ TriggerRead
  \/ \E mode \in Modes, device, notify_ok \in BOOLEAN, audio_res \in AudioResults :
       FireAlert(mode, device, notify_ok, audio_res)
  \/ \E enabled \in BOOLEAN, active_times \in ReminderSets :
       Reminder(enabled, active_times)

\* The task is polled until each of its awaits returns: the loop body goes from
\* one block to the next (the collaborators return; play_audio_file starts the
\* playback and returns), and interval.tick() returns every second.  The wall
\* clock does not stand still for ever.
SpecSteady ==
  /\ Init
  /\ [][NextSteady]_vars
  /\ WF_vars(\E adv \in {0, 1} : SteadyTick(adv))
  /\ SF_vars(SteadyTick(1))
  /\ WF_vars(Display)
  /\ WF_vars(TriggerRead)
  /\ WF_vars(\E mode \in Modes, device, notify_ok \in BOOLEAN,
                audio_res \in AudioResults :
                  FireAlert(mode, device, notify_ok, audio_res))
  /\ WF_vars(\E enabled \in BOOLEAN, active_times \in ReminderSets :
                  Reminder(enabled, active_times))

(* -------------------------- poisoned mutexes -------------------------- *)
\* The mutexes a writer of the engine holds while it calls println!, which
\* panics when the write to stdout fails: update_zones, set_method, update_cache.
PoisonableLocks == {"zones", "strategy", "current_method", "cache"}

\* a thread panics while it holds mutex l
Poison(l) ==
  /\ Cardinality(poisoned) < MaxPoisoned
  /\ l \notin poisoned
  /\ poisoned' = poisoned \cup {l}
  /\ UNCHANGED <<engineVars, clock, tickerVars, outVars, histVars, callVars,
                 taskVars, genVars, lockVars, since_last_tick, before_tick>>

\* `.lock().unwrap()` on a poisoned mutex panics: the wake block of a tick that
\* begins, the display step and the trigger step call into the engine
PanicsAtWake(elapsed, adv) ==
  /\ pc = "idle"
  /\ clock + adv \in 0..(Horizon - 1)
  /\ IsWake(last_tick_time, elapsed)
  /\ LocksOfToday(current_method, cache, coordinates, clock + adv) \cap poisoned # {}
PanicsAtDisplay ==
  /\ pc = "display"
  /\ LocksOfNext(current_method, cache, coordinates, strategy, zones, clock)
       \cap poisoned # {}
PanicsAtTrigger ==
  /\ pc = "trigger"
  /\ LocksOfToday(current_method, cache, coordinates, clock) \cap poisoned # {}

\* The panic unwinds out of the loop of start_ticker: the spawned task ends, and
\* nothing restarts it.
TickerPanics(adv) ==
  /\ pc' = "dead"
  /\ clock' = clock + adv
  /\ UNCHANGED <<engineVars, triggered_today, last_date, last_tick_time, now,
                 detected_wake, schedule, idx, outVars, histVars, callVars,
                 taskVars, genVars, poisoned, lockVars, since_last_tick, before_tick>>

\* the ticker beside threads that poison mutexes of the engine
NextPoison ==
  \/ \E l \in PoisonableLocks : Poison(l)
  \/ \E e \in Elapsed, adv \in (-MaxBack)..MaxAdvance :
       \/ ~PanicsAtWake(e, adv) /\ TickBegin(e, adv)
       \/ PanicsAtWake(e, adv) /\ TickerPanics(adv)
  \/ ~PanicsAtDisplay /\ Display
  \/ ~PanicsAtTrigger /\ TriggerRead
  \/ (PanicsAtDisplay \/ PanicsAtTrigger) /\ TickerPanics(0)
  \/ \E mode \in Modes, device, notify_ok \in BOOLEAN, audio_res \in AudioResults :
       FireAlert(mode, device, notify_ok, audio_res)
  \/ \E enabled \in BOOLEAN, active_times \in ReminderSets :
       Reminder(enabled, active_times)

SpecPoison == Init /\ [][NextPoison]_vars

(* ------------------------- locks and collaborators -------------------- *)
\* What a thread does, as far as mutexes and collaborators go, is a sequence of
\* steps: a guard is taken, a guard is dropped, a call of a collaborator begins,
\* the call returns, a task is spawned.
Lock(l) == <<"lock", l>>
Unlock(l) == <<"unlock", l>>
Call(c) == <<"call", c>>
Ret(c) == <<"ret", c>>
CallOf(c) == <<Call(c), Ret(c)>>

\* a variant of TodayOps without the block around step 1: the guard of
\* current_method lives to the end of the function
TodayOpsOneScope(path) ==
  CASE path = "hit" ->
         <<Lock("current_method"), Lock("cache"), Lock("zones"), Unlock("zones"),
           Unlock("cache"), Unlock("current_method")>>
    [] path = "miss" ->
         <<Lock("current_method"), Lock("cache"), Unlock("cache"),
           Lock("coordinates"), Lock("strategy"),
           Unlock("strategy"), Unlock("coordinates"), Unlock("current_method")>>
    [] path = "calc" ->
         <<Lock("current_method"), Lock("coordinates"),
           Lock("strategy"), Unlock("strategy"), Unlock("coordinates"),
           Unlock("current_method")>>
    [] OTHER ->
         <<Lock("current_method"), Lock("coordinates"),
           Unlock("coordinates"), Unlock("current_method")>>

\* get_today_schedule on each of its paths.  "hit": the method is "JAKIM" and the
\* cache has today's key; "miss": the method is "JAKIM", the cache has no such
\* key and the coordinates are set; "calc": another method, coordinates set;
\* "none": another method, no coordinates.  Guards are dropped in the reverse
\* order of their declaration at the end of their block.
TodayPaths == {"hit", "miss", "calc", "none"}
TodayOps(path) ==
  CASE path = "hit" ->
         <<Lock("current_method"), Lock("cache"), Lock("zones"), Unlock("zones"),
           Unlock("cache"), Unlock("current_method")>>
    [] path = "miss" ->
         <<Lock("current_method"), Lock("cache"), Unlock("cache"),
           Unlock("current_method"), Lock("coordinates"), Lock("strategy"),
           Unlock("strategy"), Unlock("coordinates")>>
    [] path = "calc" ->
         <<Lock("current_method"), Unlock("current_method"), Lock("coordinates"),
           Lock("strategy"), Unlock("strategy"), Unlock("coordinates")>>
    [] OTHER ->
         <<Lock("current_method"), Unlock("current_method"), Lock("coordinates"),
           Unlock("coordinates")>>

\* get_next_prayer: get_today_schedule, then the scan finds a time ("scan"), or
\* the roll-over finds tomorrow in the cache ("cached") or computes it
\* ("computed").  Without a schedule the function returns at once.
RollPaths == {"scan", "cached", "computed"}
NextOps(path, roll) ==
  TodayOps(path) \o
    (IF path = "none" \/ roll = "scan" THEN <<>>
     ELSE <<Lock("cache"), Unlock("cache")>> \o
          (IF roll = "cached" THEN <<>>
           ELSE <<Lock("coordinates"), Lock("strategy"), Unlock("strategy"),
                  Unlock("coordinates")>>))

\* a variant of TaskOps that takes the cache's guard before the fetch and drops
\* it after the new cache is stored
TaskOpsFetchUnderLock(ok, path) ==
  <<Lock("cache")>> \o CallOf("fetch") \o
    (IF ok THEN CallOf("save_cache") \o <<Unlock("cache")>> \o TodayOps(path)
                  \o CallOf("emit")
     ELSE <<Unlock("cache")>>)

\* the refetch task: the fetch; on Ok save_cache, update_cache,
\* get_today_schedule and the emit of "prayers-refreshed"
TaskOps(ok, path) ==
  CallOf("fetch") \o
    (IF ok THEN CallOf("save_cache") \o <<Lock("cache"), Unlock("cache")>>
                  \o TodayOps(path) \o CallOf("emit")
     ELSE <<>>)

\* the update_coordinates command: engine.update_coordinates,
\* get_today_schedule (the coordinates are set: it returns a schedule), the
\* emit, needs_refetch, and the spawn when it returned true
CommandOps(path, refetch_needed) ==
  <<Lock("coordinates"), Unlock("coordinates")>> \o TodayOps(path)
    \o CallOf("emit") \o <<Lock("cache"), Unlock("cache")>>
    \o (IF refetch_needed THEN <<<<"spawn", "task">>>> ELSE <<>>)

\* One turn of the ticker's loop after a wake, at a prayer's time and at a
\* reminder's minute: the wake block and "system-wake", the display block, the
\* trigger block with the notification and the audio, the reminder.  Without a
\* schedule the blocks that need one are skipped.
TickOps(path, roll) ==
  TodayOps(path) \o CallOf("emit")
    \o NextOps(path, roll)
    \o (IF path = "none" THEN <<>> ELSE CallOf("set_title") \o CallOf("emit"))
    \o TodayOps(path)
    \o (IF path = "none" THEN <<>>
        ELSE CallOf("notification") \o CallOf("audio"))
    \o CallOf("emit")

\* the thread is inside a call of a collaborator
InCall(t) == todo[t] # <<>> /\ Head(todo[t])[1] = "ret"

\* the mutex the thread is about to lock, if that is its next step
WantsLock(t, l) == todo[t] # <<>> /\ Head(todo[t]) = Lock(l)

HeldByAny == UNION {held[t] : t \in Threads}

\* a thread that runs nothing starts an operation
Start(t, ops) ==
  /\ todo[t] = <<>>
  /\ todo' = [todo EXCEPT ![t] = ops]
  /\ UNCHANGED <<engineVars, clock, tickerVars, outVars, histVars, callVars,
                 taskVars, genVars, poisoned, held, calls,
                 since_last_tick, before_tick>>

\* `.lock()` returns once no other guard of the mutex is alive
Acquire(t) ==
  /\ todo[t] # <<>> /\ Head(todo[t])[1] = "lock"
  /\ Head(todo[t])[2] \notin HeldByAny
  /\ held' = [held EXCEPT ![t] = @ \cup {Head(todo[t])[2]}]
  /\ todo' = [todo EXCEPT ![t] = Tail(@)]
  /\ UNCHANGED <<engineVars, clock, tickerVars, outVars, histVars, callVars,
                 taskVars, genVars, poisoned, calls, since_last_tick, before_tick>>

\* a guard is dropped
Release(t) ==
  /\ todo[t] # <<>> /\ Head(todo[t])[1] = "unlock"
  /\ held' = [held EXCEPT ![t] = @ \ {Head(todo[t])[2]}]
  /\ todo' = [todo EXCEPT ![t] = Tail(@)]
  /\ UNCHANGED <<engineVars, clock, tickerVars, outVars, histVars, callVars,
                 taskVars, genVars, poisoned, calls, since_last_tick, before_tick>>

\* a call of a collaborator begins, or returns
CallStep(t) ==
  /\ todo[t] # <<>> /\ Head(todo[t])[1] \in {"call", "ret"}
  /\ todo' = [todo EXCEPT ![t] = Tail(@)]
  /\ UNCHANGED <<engineVars, clock, tickerVars, outVars, histVars, callVars,
                 taskVars, genVars, poisoned, held, calls,
                 since_last_tick, before_tick>>

\* tauri::async_runtime::spawn: the task starts; one task is followed at a time
SpawnTask(ok, path) ==
  /\ todo["command"] # <<>> /\ Head(todo["command"])[1] = "spawn"
  /\ todo' = [todo EXCEPT !["command"] = Tail(@),
                          !["task"] = IF @ = <<>> THEN TaskOps(ok, path) ELSE @]
  /\ UNCHANGED <<engineVars, clock, tickerVars, outVars, histVars, callVars,
                 taskVars, genVars, poisoned, held, calls,
                 since_last_tick, before_tick>>

NextLocks ==
  \/ \E path \in TodayPaths \ {"none"}, refetch_needed \in BOOLEAN :
       Start("command", CommandOps(path, refetch_needed))
  \/ \E path \in TodayPaths, roll \in RollPaths : Start("ticker", TickOps(path, roll))
  \/ \E t \in Threads : Acquire(t)
  \/ \E t \in Threads : Release(t)
  \/ \E t \in Threads : CallStep(t)
  \/ \E ok \in BOOLEAN, path \in TodayPaths \ {"none"} : SpawnTask(ok, path)

\* the engine as PrayerEngine::new leaves it, no thread running
InitLocks == Init /\ current_method = "JAKIM" /\ cache = None /\ clock = 0

SpecLocks == InitLocks /\ [][NextLocks]_vars

(* ------------------- concurrent calls of the engine ------------------- *)
\* set_method: the guard of strategy is alive when current_method is locked;
\* both are dropped at the end of the function, the later one first
SetMethodOps ==
  <<Lock("strategy"), Lock("current_method"), Unlock("current_method"),
    Unlock("strategy")>>

\* update_zones, update_coordinates, update_cache and needs_refetch each take
\* one guard and drop it when they return
UpdateZonesOps == <<Lock("zones"), Unlock("zones")>>
UpdateCoordinatesOps == <<Lock("coordinates"), Unlock("coordinates")>>
UpdateCacheOps == <<Lock("cache"), Unlock("cache")>>
NeedsRefetchOps == <<Lock("cache"), Unlock("cache")>>

\* The operations of the engine each thread calls, on each of their paths: the
\* ticker resolves the schedule and the next prayer; the commands set the
\* method and the coordinates, ask needs_refetch and resolve the schedule; the
\* spawned tasks store the cache and the zones and resolve the schedule.
EngineCalls(t) ==
  {TodayOps(path) : path \in TodayPaths}
    \cup CASE t = "ticker" ->
                {NextOps(path, roll) : path \in TodayPaths, roll \in RollPaths}
            [] t = "command" ->
                {SetMethodOps, UpdateCoordinatesOps, NeedsRefetchOps}
            [] OTHER -> {UpdateCacheOps, UpdateZonesOps}

\* every thread calls its operations at any time
NextCalls ==
  \/ \E t \in Threads : \E ops \in EngineCalls(t) : Start(t, ops)
  \/ \E t \in Threads : Acquire(t)
  \/ \E t \in Threads : Release(t)

\* A thread that runs goes on to drop its guards, and a thread that waits for a
\* mutex which is free again and again gets it: the mutex wakes its waiters.
SpecCalls ==
  /\ InitLocks
  /\ [][NextCalls]_vars
  /\ \A t \in Threads : WF_vars(Release(t)) /\ SF_vars(Acquire(t))

(* -------------- set_method and a reader, step by step ----------------- *)
\* set_method up to `*strat = params`: the command's thread takes the guard of
\* strategy and stores the parameters of the method.  One call is followed at
\* a time; `before` keeps the method and the strategy the call found.
SetMethodStrategy(method_name) ==
  /\ calls.set_pc = "idle"
  /\ "strategy" \notin HeldByAny
  /\ held' = [held EXCEPT !["command"] = @ \cup {"strategy"}]
  /\ strategy' = ParamsFor(method_name)
  /\ calls' = [calls EXCEPT !.set_pc = "strategy_set", !.method_name = method_name,
                            !.before = Some(<<current_method, strategy>>)]
  /\ UNCHANGED <<coordinates, cache, zones, current_method, todo>>
  /\ UNCHANGED <<clock, tickerVars, outVars, histVars, callVars, taskVars, genVars,
                 poisoned, since_last_tick, before_tick>>

\* the rest of set_method: the guard of current_method is taken while the one
\* of strategy is alive, the name is stored, and both guards are dropped when
\* the function returns
SetMethodName ==
  /\ calls.set_pc = "strategy_set"
  /\ "current_method" \notin HeldByAny
  /\ current_method' = calls.method_name
  /\ held' = [held EXCEPT !["command"] = @ \ {"strategy"}]
  /\ calls' = [calls EXCEPT !.set_pc = "returned"]
  /\ UNCHANGED <<coordinates, strategy, cache, zones, todo>>
  /\ UNCHANGED <<clock, tickerVars, outVars, histVars, callVars, taskVars, genVars,
                 poisoned, since_last_tick, before_tick>>

\* get_today_schedule, step 1, in another thread: under the guard of
\* current_method the cache is tried when the method is "JAKIM"; a hit is
\* returned, else the guards of the block are dropped and step 2 follows
TodayTryCache ==
  /\ calls.get_pc = "idle"
  /\ "current_method" \notin HeldByAny
  /\ calls' =
       IF CacheApplies(current_method, cache, DateKey(DateOf(clock)))
       THEN [calls EXCEPT !.get_pc = "returned",
               !.result = Some(TodaySchedule(current_method, cache, coordinates,
                                             strategy, zones, clock))]
       ELSE [calls EXCEPT !.get_pc = "fallback"]
  /\ UNCHANGED <<engineVars, held, todo>>
  /\ UNCHANGED <<clock, tickerVars, outVars, histVars, callVars, taskVars, genVars,
                 poisoned, since_last_tick, before_tick>>

\* get_today_schedule, step 2: without coordinates the function returns None;
\* else the strategy is read under its guard and the times are calculated
TodayFallback ==
  /\ calls.get_pc = "fallback"
  /\ coordinates = None \/ "strategy" \notin HeldByAny
  /\ calls' = [calls EXCEPT !.get_pc = "returned",
                 !.result = Some(Fallback(coordinates, strategy, DateOf(clock)))]
  /\ UNCHANGED <<engineVars, held, todo>>
  /\ UNCHANGED <<clock, tickerVars, outVars, histVars, callVars, taskVars, genVars,
                 poisoned, since_last_tick, before_tick>>

\* both calls have returned (or were not made): the next calls may begin
CallsReturned ==
  /\ calls # NoCalls
  /\ calls.set_pc # "strategy_set" /\ calls.get_pc # "fallback"
  /\ calls' = NoCalls
  /\ UNCHANGED <<engineVars, held, todo>>
  /\ UNCHANGED <<clock, tickerVars, outVars, histVars, callVars, taskVars, genVars,
                 poisoned, since_last_tick, before_tick>>

\* a set_method call and a get_today_schedule call in two threads, their steps
\* in any order; the coordinates are set while no call is in progress
NextSetMethod ==
  \/ \E method_name \in Methods : SetMethodStrategy(method_name)
  \/ SetMethodName
  \/ TodayTryCache
  \/ TodayFallback
  \/ CallsReturned
  \/ \E c \in {1, 2} : calls = NoCalls /\ UpdateCoordinates(c)

SpecSetMethod == Init /\ [][NextSetMethod]_vars

(* ---------------- get_next_prayer and its two clocks ------------------ *)
\* get_next_prayer up to `self.get_today_schedule()?`: the schedule is resolved
\* with the Local::now() that get_today_schedule reads; without a schedule the
\* function returns None
NextPrayerLookup ==
  /\ calls.lookup = None
  /\ IF GetTodaySchedule = None
     THEN next_prayer' = Some(None) /\ UNCHANGED calls
     ELSE calls' = [calls EXCEPT !.lookup = Some(clock)] /\ UNCHANGED next_prayer
  /\ UNCHANGED <<engineVars, clock, tickerVars, outVars, histVars, today_schedule,
                 refetch, taskVars, genVars, poisoned, held, todo,
                 since_last_tick, before_tick>>

\* the rest of get_next_prayer: `let now = Local::now()` is read again, the six
\* times of the schedule are scanned against it, and the roll-over takes the
\* date after now's
NextPrayerScan ==
  /\ calls.lookup # None
  /\ next_prayer' = Some(NextPrayer(current_method, cache, coordinates, strategy,
                                    zones, calls.lookup[1], clock))
  /\ calls' = [calls EXCEPT !.lookup = None]
  /\ UNCHANGED <<engineVars, clock, tickerVars, outVars, histVars, today_schedule,
                 refetch, taskVars, genVars, poisoned, held, todo,
                 since_last_tick, before_tick>>

\* the wall clock goes on by a second
TimePasses ==
  /\ clock + 1 < Horizon
  /\ clock' = clock + 1
  /\ UNCHANGED <<engineVars, tickerVars, outVars, histVars, callVars, taskVars,
                 genVars, poisoned, lockVars, since_last_tick, before_tick>>

\* calls of get_next_prayer while the wall clock runs; the coordinates are set
\* between the calls
NextMidnight ==
  \/ NextPrayerLookup
  \/ NextPrayerScan
  \/ TimePasses
  \/ \E c \in {1, 2} : calls = NoCalls /\ UpdateCoordinates(c)

SpecMidnight == Init /\ [][NextMidnight]_vars

(* --------------------- the engine and its callers --------------------- *)
\* A call of engine.get_next_prayer() whose return value the caller keeps: the
\* engine and the clock are read, nothing is written.
CallGetNextPrayer ==
  /\ next_prayer' = Some(GetNextPrayer)
  /\ UNCHANGED <<engineVars, clock, tickerVars, outVars, histVars, today_schedule,
                 refetch>>
  /\ UNCHANGED <<taskVars, genVars, poisoned, lockVars, since_last_tick, before_tick>>

\* the engine under its writers and a caller of get_next_prayer, at any time of
\* the modelled days, with the ticker at rest
NextEngine ==
  \/ EngineWrite
  \/ UpdateCache(SnapFar)
  \/ CallGetNextPrayer

SpecEngine == Init /\ [][NextEngine]_vars

(* ------------------- the resolver and its callers --------------------- *)
\* a ZonesMap that knows the zone of SnapA and not the zone of SnapB
ZonesMY ==
  [c \in {"WLY01"} |-> [jakim_code |-> c, negeri |-> "Wilayah Persekutuan",
                        daerah |-> "Kuala Lumpur"]]

\* PrayerEngine::update_zones
UpdateZones(new_map) ==
  /\ zones' = Some(new_map)
  /\ UNCHANGED <<coordinates, strategy, cache, current_method>>
  /\ UNCHANGED <<clock, tickerVars, outVars, histVars, callVars>>
  /\ UNCHANGED <<taskVars, genVars, poisoned, lockVars, since_last_tick, before_tick>>

\* A call of engine.get_today_schedule() whose return value the caller keeps
\* (the get_prayers command)
CallGetTodaySchedule ==
  /\ today_schedule' = Some(GetTodaySchedule)
  /\ UNCHANGED <<engineVars, clock, tickerVars, outVars, histVars, next_prayer,
                 refetch>>
  /\ UNCHANGED <<taskVars, genVars, poisoned, lockVars, since_last_tick, before_tick>>

\* A call of engine.needs_refetch(lat, lng) whose result the caller keeps
CallNeedsRefetch(c) ==
  /\ refetch' = Some(<<c, NeedsRefetch(cache, clock, c)>>)
  /\ UNCHANGED <<engineVars, clock, tickerVars, outVars, histVars, next_prayer,
                 today_schedule>>
  /\ UNCHANGED <<taskVars, genVars, poisoned, lockVars, since_last_tick, before_tick>>

\* the engine under its writers, the zone table's loader and the callers of
\* get_today_schedule and needs_refetch; the cache may also be one of the month
\* before
NextResolve ==
  \/ EngineWrite
  \/ UpdateCache(SnapOld)
  \/ UpdateZones(ZonesMY)
  \/ CallGetTodaySchedule
  \/ \E c \in Places : CallNeedsRefetch(c)

SpecResolve == Init /\ [][NextResolve]_vars

(* -------------------------- the refetch tasks ------------------------- *)
\* the places the update_coordinates command is called with
FetchPlaces == {1, 2}

\* The JakimCache a refetch task builds from what jakim_api::fetch_jakim_times
\* answers for a place: the zone's month, tagged with the place of the query.
FetchedCache(c) == IF c = 1 THEN SnapA ELSE SnapB

\* the slot a newly spawned task takes
FreeSlot == CHOOSE t \in TaskIds : tasks[t] = NoTask /\ \A u \in 1..(t - 1) : tasks[u] # NoTask

\* The update_coordinates command up to the spawn: the coordinates are set, the
\* schedule is resolved and emitted, and a refetch task is spawned when
\* needs_refetch says so.
CmdUpdateCoordinates(c) ==
  /\ coordinates' = Some(c)
  /\ today_schedule' =
       Some(TodaySchedule(current_method, cache, Some(c), strategy, zones, clock))
  /\ IF NeedsRefetch(cache, clock, c)
     THEN /\ \E t \in TaskIds : tasks[t] = NoTask
          /\ tasks' = [tasks EXCEPT ![FreeSlot] =
                         [st |-> "fetching", lat_lng |-> c, new_cache |-> None]]
     ELSE UNCHANGED tasks
  /\ UNCHANGED <<strategy, cache, zones, current_method>>
  /\ UNCHANGED <<clock, tickerVars, outVars, histVars, next_prayer, refetch,
                 last_update, persisted, genVars, poisoned, lockVars,
                 since_last_tick, before_tick>>

\* The fetch of task t returns.  Ok(data): the task goes on with the response.
\* Err: the task prints the error and ends.
FetchDone(t, ok) ==
  /\ tasks[t].st = "fetching"
  /\ tasks' = [tasks EXCEPT ![t] =
                IF ok THEN [st |-> "fetched", lat_lng |-> tasks[t].lat_lng,
                            new_cache |-> None]
                      ELSE NoTask]
  /\ UNCHANGED <<engineVars, clock, tickerVars, outVars, histVars, callVars,
                 last_update, persisted, genVars, poisoned, lockVars,
                 since_last_tick, before_tick>>

\* How jakim_api::save_cache may end: the file is written; the call fails and
\* the file is as it was (no path, or the write is refused); the write fails
\* after fs::write has truncated the file, which load_cache then cannot parse.
SaveResults == {"ok", "err", "torn"}

\* the file after save_cache was called with the cache built from the response
Saved(file, written, save_res) ==
  CASE save_res = "ok" -> Some(written)
    [] save_res = "err" -> file
    [] OTHER -> None

\* a variant of TaskSave that gives up when save_cache fails
TaskSaveChecked(t, save_res) ==
  /\ tasks[t].st = "fetched"
  /\ persisted' = Saved(persisted, FetchedCache(tasks[t].lat_lng), save_res)
  /\ tasks' = [tasks EXCEPT ![t] =
                IF save_res = "ok"
                THEN [st |-> "built", lat_lng |-> tasks[t].lat_lng,
                      new_cache |-> Some(FetchedCache(tasks[t].lat_lng))]
                ELSE NoTask]
  /\ UNCHANGED <<engineVars, clock, tickerVars, outVars, histVars, callVars,
                 last_update, genVars, poisoned, lockVars, since_last_tick, before_tick>>

\* "1. Save to Disk", with the result dropped by `let _ =`, then "2. Update
\* In-Memory Cache manually" up to the value new_cache: built from the response
\* and the coordinates the task was spawned with
TaskSave(t, save_res) ==
  /\ tasks[t].st = "fetched"
  /\ persisted' = Saved(persisted, FetchedCache(tasks[t].lat_lng), save_res)
  /\ tasks' = [tasks EXCEPT ![t] =
                [st |-> "built", lat_lng |-> tasks[t].lat_lng,
                 new_cache |-> Some(FetchedCache(tasks[t].lat_lng))]]
  /\ UNCHANGED <<engineVars, clock, tickerVars, outVars, histVars, callVars,
                 last_update, genVars, poisoned, lockVars, since_last_tick, before_tick>>

\* task t calls engine.update_cache(new_cache)
TaskUpdateCache(t) ==
  /\ tasks[t].st = "built"
  /\ cache' = SetCache(cache, tasks[t].new_cache[1])
  /\ last_update' = tasks[t].new_cache
  /\ tasks' = [tasks EXCEPT ![t] = [@ EXCEPT !.st = "updated"]]
  /\ UNCHANGED <<coordinates, strategy, zones, current_method, persisted>>
  /\ UNCHANGED <<clock, tickerVars, outVars, histVars, callVars, genVars, poisoned, lockVars, since_last_tick, before_tick>>

\* task t resolves the schedule again, emits it and ends
TaskRefresh(t) ==
  /\ tasks[t].st = "updated"
  /\ today_schedule' = Some(GetTodaySchedule)
  /\ tasks' = [tasks EXCEPT ![t] = NoTask]
  /\ UNCHANGED <<engineVars, clock, tickerVars, outVars, histVars, next_prayer,
                 refetch, last_update, persisted, genVars, poisoned, lockVars,
                 since_last_tick, before_tick>>

\* the update_coordinates command, the tasks it spawns, and the get_prayers
\* queries that read the engine while the tasks run; every save_cache call
\* succeeds
NextRefetch ==
  \/ \E c \in FetchPlaces : CmdUpdateCoordinates(c)
  \/ \E t \in TaskIds, ok \in BOOLEAN : FetchDone(t, ok)
  \/ \E t \in TaskIds : TaskSave(t, "ok")
  \/ \E t \in TaskIds : TaskUpdateCache(t)
  \/ \E t \in TaskIds : TaskRefresh(t)
  \/ CallGetTodaySchedule

SpecRefetch == Init /\ [][NextRefetch]_vars

\* the update_coordinates command and its tasks when every fetch and every
\* save_cache call succeeds
NextFetched ==
  \/ \E c \in FetchPlaces : CmdUpdateCoordinates(c)
  \/ \E t \in TaskIds : FetchDone(t, TRUE)
  \/ \E t \in TaskIds : TaskSave(t, "ok")
  \/ \E t \in TaskIds : TaskUpdateCache(t)
  \/ \E t \in TaskIds : TaskRefresh(t)

SpecFetched == Init /\ [][NextFetched]_vars

(* ------------------- the month of the feed's response ----------------- *)
\* the letters char::to_uppercase and str::to_lowercase change
UpperCase ==
  <<"A","B","C","D","E","F","G","H","I","J","K","L","M",
    "N","O","P","Q","R","S","T","U","V","W","X","Y","Z">>
LowerCase ==
  <<"a","b","c","d","e","f","g","h","i","j","k","l","m",
    "n","o","p","q","r","s","t","u","v","w","x","y","z">>
ToUppercase(ch) ==
  IF \E i \in 1..26 : LowerCase[i] = ch
  THEN UpperCase[CHOOSE i \in 1..26 : LowerCase[i] = ch] ELSE ch
ToLowercase(ch) ==
  IF \E i \in 1..26 : UpperCase[i] = ch
  THEN LowerCase[CHOOSE i \in 1..26 : UpperCase[i] = ch] ELSE ch

\* month_capitalized: the first character of data.month in upper case (the
\* default character when there is none), the others in lower case
MonthCapitalized(month) ==
  <<ToUppercase(IF month = <<>> THEN "NUL" ELSE month[1])>>
    \o [i \in 1..(Len(month) - 1) |-> ToLowercase(month[i + 1])]

\* the JAKIM zone the feed resolves a place to
ZoneOf(c) == IF c = 1 THEN "WLY01" ELSE "SGR01"

\* A SolatResponse for place c: the zone's datapoints of `dates`, each with its
\* day of the month, under the month and the year the server names.
SolatResponse(c, month, year, dates) ==
  [prayers |-> {[day |-> (d % DaysPerMonth) + 1, point |-> FeedEntry(c, d)] :
                  d \in dates},
   zone |-> ZoneOf(c), year |-> year, month |-> month]

\* the dates the feed lists for a place: the whole month for place 1, one day
\* of it for place 2
ListedDates(c, first) ==
  IF c = 1 THEN first..(first + DaysPerMonth - 1) ELSE {first + 1}

\* What fetch_jakim_times may return as Ok(data) for place c.  It accepts every
\* body that parses as a SolatResponse: the month is any string, the year any
\* integer.  The server names its own month, the one of the zone's local date:
\* the local month of the machine, spelled "JAN" or "jan" or in full, or the
\* month after it when the zone's date is ahead of the machine's.
Answers(c) ==
  {SolatResponse(c, <<"J","A","N">>, FirstYear, ListedDates(c, 0)),
   SolatResponse(c, <<"j","a","n">>, FirstYear, ListedDates(c, 0)),
   SolatResponse(c, <<"J","A","N","U","A","R","Y">>, FirstYear, ListedDates(c, 0)),
   SolatResponse(c, <<"F","E","B">>, FirstYear, ListedDates(c, DaysPerMonth))}

\* new_cache: the keys "{:02}-{}-{}" of day, month_capitalized and data.year,
\* the month_hash "{}-{}" of month_capitalized and data.year, and the
\* coordinates the task was spawned with
NewCache(lat_lng, data) ==
  LET month_capitalized == MonthCapitalized(data.month) IN
  [zone |-> data.zone, lat_lng |-> lat_lng,
   month_hash |-> <<month_capitalized, data.year>>,
   prayers |-> [k \in {<<p.day, <<month_capitalized, data.year>>>> :
                         p \in data.prayers} |->
                  (CHOOSE p \in data.prayers : p.day = k[1]).point]]

\* TaskSave for any response the fetch may have returned: save_cache succeeds,
\* and new_cache is built from the response
TaskSaveAnswer(t, data) ==
  /\ tasks[t].st = "fetched"
  /\ persisted' = Saved(persisted, NewCache(tasks[t].lat_lng, data), "ok")
  /\ tasks' = [tasks EXCEPT ![t] =
                [st |-> "built", lat_lng |-> tasks[t].lat_lng,
                 new_cache |-> Some(NewCache(tasks[t].lat_lng, data))]]
  /\ UNCHANGED <<engineVars, clock, tickerVars, outVars, histVars, callVars,
                 last_update, genVars, poisoned, lockVars, since_last_tick, before_tick>>

\* the update_coordinates command and its tasks, the feed answering with any
\* of its responses
NextAnswers ==
  \/ \E c \in FetchPlaces : CmdUpdateCoordinates(c)
  \/ \E t \in TaskIds : FetchDone(t, TRUE)
  \/ \E t \in TaskIds : \E data \in Answers(tasks[t].lat_lng) : TaskSaveAnswer(t, data)
  \/ \E t \in TaskIds : TaskUpdateCache(t)
  \/ \E t \in TaskIds : TaskRefresh(t)

SpecAnswers == Init /\ [][NextAnswers]_vars

(* ---------------------- the "prayers-refreshed" event ----------------- *)
\* `if let Some(schedule) = engine.get_today_schedule() { emit(..) }`: the two
\* commands and the task emit "prayers-refreshed" when the call returned a
\* schedule
EmitsRefreshed(result) == result # None

\* the update_calculation_method command: set_method, then the schedule is
\* resolved and emitted
CmdUpdateMethod(method_name) ==
  /\ strategy' = ParamsFor(method_name)
  /\ current_method' = method_name
  /\ today_schedule' =
       Some(TodaySchedule(method_name, cache, coordinates, ParamsFor(method_name),
                          zones, clock))
  /\ UNCHANGED <<coordinates, cache, zones>>
  /\ UNCHANGED <<clock, tickerVars, outVars, histVars, next_prayer, refetch,
                 taskVars, genVars, poisoned, lockVars, since_last_tick, before_tick>>

\* the two commands and the refetch tasks: the only callers of
\* get_today_schedule here are the ones that emit its result
NextNotify ==
  \/ \E c \in FetchPlaces : CmdUpdateCoordinates(c)
  \/ \E t \in TaskIds, ok \in BOOLEAN : FetchDone(t, ok)
  \/ \E t \in TaskIds, save_res \in SaveResults : TaskSave(t, save_res)
  \/ \E t \in TaskIds : TaskUpdateCache(t)
  \/ \E t \in TaskIds : TaskRefresh(t)
  \/ \E m \in Methods : CmdUpdateMethod(m)

SpecNotify == Init /\ [][NextNotify]_vars

(* ---------------------- what a response may carry --------------------- *)
\* PrayerDatapoint is six i64 fields that serde reads from the response: any
\* six numbers are accepted, and neither the task, nor save_cache, nor
\* update_cache compares them.  The offsets within its day that a datapoint may
\* carry: the zone's usual ones, one with isha before maghrib, one with fajr
\* after syuruk.
WireOffsets == {FeedOffsets(1), <<2, 4, 5, 6, 7, 3>>, <<5, 4, 5, 6, 7, 7>>}

\* the JakimCache a task builds from a response whose datapoints carry `t`
WireCache(t) ==
  [zone |-> "WLY01", lat_lng |-> 1, month_hash |-> MonthTag(0),
   prayers |-> [k \in {DateKey(d) : d \in 0..(DaysPerMonth - 1)} |->
                  Datapoint(Shift(t,
                      (CHOOSE d \in 0..(DaysPerMonth - 1) : DateKey(d) = k) * DayLen))]]

\* the engine under its writers, with caches built from any such response, and
\* the callers of get_today_schedule
NextWire ==
  \/ EngineWrite
  \/ \E t \in WireOffsets : UpdateCache(WireCache(t))
  \/ UpdateZones(ZonesMY)
  \/ CallGetTodaySchedule

SpecWire == Init /\ [][NextWire]_vars

(* ----------------------- generate_random_times ------------------------ *)
\* A u64 is its eight bytes, least significant first.
Byte == 256
U64(n) == [k \in 1..8 |-> IF k <= 3 THEN (n \div Byte^(k - 1)) % Byte
                          ELSE IF k = 4 THEN n \div Byte^3 ELSE 0]

\* the carries of a column-wise sum, dropped beyond the eighth byte
RECURSIVE Wrap(_, _, _)
Wrap(cols, k, carry) ==
  IF k > 8 THEN <<>>
  ELSE <<(cols[k] + carry) % Byte>> \o Wrap(cols, k + 1, (cols[k] + carry) \div Byte)

RECURSIVE Column(_, _, _, _)
Column(a, b, k, i) ==
  IF i = 0 THEN 0 ELSE a[i] * b[k + 1 - i] + Column(a, b, k, i - 1)

\* u64::wrapping_mul and u64::wrapping_add
WrappingMul(a, b) == Wrap([k \in 1..8 |-> Column(a, b, k, k)], 1, 0)
WrappingAdd(a, b) == Wrap([k \in 1..8 |-> a[k] + b[k]], 1, 0)

\* 6364136223846793005 = 0x5851F42D4C957F2D, 1442695040888963407 = 0x14057B7EF767814F
Multiplier == <<45, 127, 149, 76, 45, 244, 81, 88>>
Increment == <<79, 129, 103, 247, 126, 123, 5, 20>>

\* `(state >> 33) as u32`: the bits 33..63
ShiftRight33(st) == (st[5] \div 2) + st[6] * 128 + st[7] * 32768 + st[8] * 8388608

min_minutes == 8 * 60
max_minutes == 21 * 60
range == max_minutes - min_minutes

\* the seed of a date
Seed(date) == U64(date[1] * 10000 + date[2] * 100 + date[3])

\* one turn of the generator's loop: the next state
Advance(st) == WrappingAdd(WrappingMul(st, Multiplier), Increment)

\* the three candidates of a date, in the order they are pushed
Candidates(date) ==
  LET s1 == Advance(Seed(date))
      s2 == Advance(s1)
      s3 == Advance(s2)
  IN <<min_minutes + (ShiftRight33(s1) % range),
       min_minutes + (ShiftRight33(s2) % range),
       min_minutes + (ShiftRight33(s3) % range)>>

\* Vec::sort
RECURSIVE Sorted(_)
Sorted(v) ==
  IF v = <<>> THEN <<>>
  ELSE LET least == CHOOSE i \in 1..Len(v) : \A j \in 1..Len(v) : v[i] <= v[j]
       IN <<v[least]>> \o Sorted(SubSeq(v, 1, least - 1) \o SubSeq(v, least + 1, Len(v)))

\* The u32 subtraction `a - b` where it wraps, as its two 16-bit halves, high
\* half first.
Half == 65536
WrappingSub(a, b) ==
  IF a >= b THEN <<(a - b) \div Half, (a - b) % Half>>
  ELSE <<Half - 1 - ((b - a - 1) \div Half), Half - 1 - ((b - a - 1) % Half)>>

\* `d < 90` for a u32 given as its halves
BelowMinGap(d) == d[1] = 0 /\ d[2] < MinGap

Min(a, b) == IF a <= b THEN a ELSE b

\* The gap loop from index i on (i counts from 0, as in the source).  A build
\* with overflow checks panics at `times[i] - times[i - 1]` when the difference
\* is negative; a build without them wraps.  The result is the Vec after the
\* loop, or None after a panic.
RECURSIVE GapLoop(_, _, _)
GapLoop(v, i, overflow_checks) ==
  IF i >= Len(v) THEN Some(v)
  ELSE IF overflow_checks /\ v[i + 1] < v[i] THEN None
  ELSE IF BelowMinGap(WrappingSub(v[i + 1], v[i]))
       THEN GapLoop([v EXCEPT ![i + 1] = Min(v[i] + MinGap, max_minutes)],
                    i + 1, overflow_checks)
       ELSE GapLoop(v, i + 1, overflow_checks)

\* format!("{:02}:{:02}", m / 60, m % 60): the two numbers the string shows
Formatted(m) == <<m \div 60, m % 60>>
\* the minute of the day a returned string names
MinuteOfDay(hm) == hm[1] * 60 + hm[2]

Dates ==
  {<<y, m, d>> : y \in FirstYear..(FirstYear + NumYears - 1), m \in 1..12,
                 d \in 1..MaxDay}

\* a call of generate_random_times(year, month, day) has begun
InitGen ==
  /\ InitProgram
  /\ current_method = "JAKIM" /\ cache = None /\ clock = 0
  /\ tasks = [t \in TaskIds |-> NoTask]
  /\ last_update = None
  /\ persisted = cache
  /\ gen_date \in {Some(d) : d \in Dates}
  /\ gen_pc = "called"
  /\ times = <<>>
  /\ gen_result = None
  /\ gen_build = None
  /\ gen_first = None
  /\ poisoned = {}
  /\ held = [t \in Threads |-> {}]
  /\ calls = NoCalls
  /\ todo = [t \in Threads |-> <<>>]
  /\ since_last_tick = None
  /\ before_tick = None

\* a variant of PushTimes whose generator keeps a count of the calls made before
\* and adds it to the seed
PushTimesCounting ==
  /\ gen_pc = "called"
  /\ times' = Candidates(<<gen_date[1][1], gen_date[1][2],
                           gen_date[1][3] + (IF gen_first = None THEN 0
                                             ELSE gen_first[1].later)>>)
  /\ gen_pc' = "pushed"
  /\ UNCHANGED <<engineVars, clock, tickerVars, outVars, histVars, callVars,
                 taskVars, poisoned, lockVars, since_last_tick,
                 before_tick, gen_date, gen_result, gen_build, gen_first>>

\* the seed and the three pushes
PushTimes ==
  /\ gen_pc = "called"
  /\ times' = Candidates(gen_date[1])
  /\ gen_pc' = "pushed"
  /\ UNCHANGED <<engineVars, clock, tickerVars, outVars, histVars, callVars,
                 taskVars, poisoned, lockVars, since_last_tick,
                 before_tick, gen_date, gen_result, gen_build, gen_first>>

\* times.sort()
SortTimes ==
  /\ gen_pc = "pushed"
  /\ times' = Sorted(times)
  /\ gen_pc' = "sorted"
  /\ UNCHANGED <<engineVars, clock, tickerVars, outVars, histVars, callVars,
                 taskVars, poisoned, lockVars, since_last_tick,
                 before_tick, gen_date, gen_result, gen_build, gen_first>>

\* the outcome of the first call that is over is kept
FirstOutcome(result) ==
  IF gen_first = None
  THEN Some([date |-> gen_date[1], result |-> result, later |-> 0])
  ELSE gen_first

\* The gap loop, in a build with or without overflow checks: every call of one
\* program runs in the same build.
EnforceGap(overflow_checks) ==
  /\ gen_pc = "sorted"
  /\ gen_build \in {None, Some(overflow_checks)}
  /\ gen_build' = Some(overflow_checks)
  /\ LET after == GapLoop(times, 1, overflow_checks)
     IN IF after = None
        THEN /\ gen_pc' = "panicked"
             /\ gen_first' = FirstOutcome(None)
             /\ UNCHANGED times
        ELSE /\ gen_pc' = "gapped"
             /\ times' = after[1]
             /\ UNCHANGED gen_first
  /\ UNCHANGED <<engineVars, clock, tickerVars, outVars, histVars, callVars,
                 taskVars, poisoned, lockVars, since_last_tick,
                 before_tick, gen_date, gen_result>>

\* the strings are collected and returned
ReturnTimes ==
  /\ gen_pc = "gapped"
  /\ gen_result' = Some([i \in 1..Len(times) |-> Formatted(times[i])])
  /\ gen_first' = FirstOutcome(gen_result')
  /\ gen_pc' = "returned"
  /\ UNCHANGED <<engineVars, clock, tickerVars, outVars, histVars, callVars,
                 taskVars, poisoned, lockVars, since_last_tick,
                 before_tick, gen_date, times, gen_build>>

NextGen ==
  \/ PushTimes
  \/ SortTimes
  \/ \E overflow_checks \in BOOLEAN : EnforceGap(overflow_checks)
  \/ ReturnTimes

SpecGen == InitGen /\ [][NextGen]_vars

\* the dates of the calls that follow the first: the same date and the day after
AgainDates(date) == {date, <<date[1], date[2], (date[3] % MaxDay) + 1>>}

\* generate_random_times is called once more: its locals are new
CallAgain(date) ==
  /\ gen_pc \in {"returned", "panicked"}
  /\ gen_date' = Some(date)
  /\ gen_pc' = "called"
  /\ times' = <<>>
  /\ gen_result' = None
  /\ gen_first' = Some([gen_first[1] EXCEPT !.later = Min(@ + 1, MaxLater)])
  /\ UNCHANGED <<engineVars, clock, tickerVars, outVars, histVars, callVars,
                 taskVars, poisoned, lockVars, since_last_tick,
                 before_tick, gen_build>>

\* calls of generate_random_times one after the other, while the engine's
\* writers run
NextGenAgain ==
  \/ NextGen
  \/ gen_first # None /\ \E date \in AgainDates(gen_first[1].date) : CallAgain(date)
  \/ EngineWrite

SpecGenAgain == InitGen /\ [][NextGenAgain]_vars

(* ------------------------------ properties ---------------------------- *)
\* the (name, time) pairs of the schedule the trigger step holds
Held == Prayers(schedule[1])

\* C1: while the local date of the ticks stays the same, the notification and
\* audio of each of the six names are requested at most once, whatever the
\* timing of the ticks and the writes to the engine between them.
C1_AtMostOncePerDate == \A n \in NameSet : alerts_on_date[n] <= 1

\* C1's case: a tick in the window of a name that an earlier tick of the same
\* date has alerted, and this tick has not alerted it again
C1_SecondTickInWindow ==
  /\ pc = "reminder"
  /\ schedule # None
  /\ \E i \in 1..6 : /\ InWindow(now, Held[i][2])
                      /\ alerts_on_date[Held[i][1]] = 1
                      /\ Held[i][1] \notin notified

\* C2: a tick whose local date differs from last_date (the first tick, with
\* last_date unset, included) leaves triggered_today empty and last_date equal
\* to the tick's date right after the day-rollover step.
C2_RolloverClears ==
  [][(pc = "idle" /\ pc' = "display" /\ last_date # Some(DateOf(now')))
       => (triggered_today' = {} /\ last_date' = Some(DateOf(now')))]_vars

\* C2's case: the day-rollover step has just emptied a set that held names
C2_RolledOver ==
  /\ pc = "display"
  /\ date_changed
  /\ dropped_some
  /\ triggered_today = {}
  /\ last_date = Some(DateOf(now))

\* C3: a name leaves triggered_today only in a tick whose local date differs
\* from last_date; in every other step the set only grows; and it holds none
\* but the six canonical names.
C3_ShrinksOnlyOnNewDate ==
  [][/\ (~(triggered_today \subseteq triggered_today')
          => (pc = "idle" /\ last_date # Some(DateOf(now'))))
     /\ triggered_today' \subseteq NameSet]_vars

\* C3's case: ticks of one date have grown the set past what one tick can add
C3_GrownOverTicks ==
  /\ pc = "reminder"
  /\ last_date = prev_tick_date
  /\ Cardinality(triggered_today) >= 4
  /\ notified # {}

\* C4: in a tick that has detected a wake, no notification and no audio is
\* requested for a name whose time in today's schedule is strictly before now.
C4_NoStaleAlertOnWake ==
  (detected_wake /\ schedule # None)
    => \A i \in 1..6 : Held[i][2] < now => Held[i][1] \notin (notified \cup played)

\* C5: in a tick that has detected a wake, every name of today's schedule whose
\* time is strictly before now is in triggered_today when the trigger step is
\* about to run and when the tick completes, a tick that also sees a new local
\* date included.
C5_PastMarkedOnWake ==
  /\ (detected_wake /\ pc = "trigger" /\ GetTodaySchedule # None)
       => \A i \in 1..6 : Prayers(GetTodaySchedule[1])[i][2] < now
                            => Prayers(GetTodaySchedule[1])[i][1] \in triggered_today
  /\ (detected_wake /\ pc = "reminder" /\ schedule # None)
       => \A i \in 1..6 : Held[i][2] < now => Held[i][1] \in triggered_today

\* C6: a name that fires is in triggered_today before any of its side effects
\* (settings load, notification, audio) is invoked: whenever the side effects of
\* a name are due or have been requested, the name is in the set.
C6_MarkedBeforeEffects ==
  /\ pc = "alert" => Held[idx][1] \in triggered_today
  /\ (notified \cup played) \subseteq triggered_today

\* C6's case: the side effects of a name are about to be invoked, none has been
\* requested yet, and the name is in the set
C6_EffectsDue ==
  /\ pc = "alert"
  /\ alerts_on_date[Held[idx][1]] = 0
  /\ Held[idx][1] \notin (notified \cup played)
  /\ Held[idx][1] \in triggered_today

\* C7: a failed notification or audio call does not end the tick: when the
\* reminder step is reached, every name in its window has been handled, the
\* names alerted in the tick are in triggered_today, and none of them has been
\* alerted twice on this date.
C7_FailureDoesNotAbort ==
  (collab_failed /\ pc = "reminder")
    => /\ \A i \in 1..6 : InWindow(now, Held[i][2]) => Held[i][1] \in triggered_today
       /\ notified \subseteq triggered_today
       /\ \A n \in notified : alerts_on_date[n] = 1

\* C7's case: a call has failed in this tick and the loop has gone on to fire a
\* later name
C7_LoopGoesOnAfterFailure ==
  /\ pc = "alert"
  /\ collab_failed
  /\ notified # {}
  /\ Held[idx][1] \notin notified

\* C8: "syuruk" gets no notification and no audio under any alert mode, but a
\* tick in its window inserts it into triggered_today as it does the others.
C8_SyurukSilentButMarked ==
  /\ "syuruk" \notin (notified \cup played)
  /\ alerts_on_date["syuruk"] = 0
  /\ (pc \in {"alert", "reminder"} /\ schedule # None /\ InWindow(now, Held[2][2])
        /\ (pc = "alert" => idx >= 2))
       => "syuruk" \in triggered_today

\* C8's case: the trigger step has fired "syuruk" in this tick (no wake marked
\* it), next to a name that was notified
C8_SyurukFired ==
  /\ pc = "reminder"
  /\ schedule # None
  /\ ~detected_wake
  /\ InWindow(now, Held[2][2])
  /\ "syuruk" \in triggered_today
  /\ notified # {}

\* C9: when get_today_schedule yields a schedule with a time strictly after now,
\* get_next_prayer returns the first name in canonical order whose time is
\* strictly after now, with that time as timestamp; a time equal to now is
\* never returned.
C9_FirstStrictlyAfterNow ==
  [][next_prayer' # next_prayer =>
       LET today == GetTodaySchedule IN
       (today # None /\ \E i \in 1..6 : Prayers(today[1])[i][2] > clock)
         => /\ next_prayer'[1] # None
            /\ \E k \in 1..6 :
                 /\ Prayers(today[1])[k][2] > clock
                 /\ \A j \in 1..(k - 1) : Prayers(today[1])[j][2] <= clock
                 /\ next_prayer'[1][1].name = Names[k]
                 /\ next_prayer'[1][1].timestamp = Prayers(today[1])[k][2]
            /\ next_prayer'[1][1].timestamp # clock]_vars

\* C9's case: a call at the very second of one event has returned a later one
C9_SkippedEqual ==
  /\ next_prayer # None
  /\ next_prayer[1] # None
  /\ next_prayer[1] = GetNextPrayer
  /\ GetTodaySchedule # None
  /\ \E i \in 1..5 : /\ Prayers(GetTodaySchedule[1])[i][2] = clock
                      /\ next_prayer[1][1].timestamp > clock
                      /\ next_prayer[1][1].name = Names[i + 1]

\* C10: when all six times of today are at or before now, get_next_prayer
\* returns "fajr" with the cache's fajr of tomorrow's key if the cache holds
\* that key, else with tomorrow's computed fajr if the coordinates are set, else
\* nothing; and it returns nothing when get_today_schedule does.
C10_RollOver ==
  [][next_prayer' # next_prayer =>
       LET today == GetTodaySchedule
           tom_key == DateKey(DateOf(clock) + 1)
           r == next_prayer'[1]
       IN /\ today = None => r = None
          /\ (today # None /\ \A i \in 1..6 : Prayers(today[1])[i][2] <= clock)
               => IF cache # None /\ tom_key \in DOMAIN cache[1].prayers
                  THEN /\ r # None
                       /\ r[1].name = "fajr"
                       /\ r[1].timestamp = cache[1].prayers[tom_key].fajr
                  ELSE IF coordinates # None
                  THEN /\ r # None
                       /\ r[1].name = "fajr"
                       /\ r[1].timestamp =
                            PrayerTimes(DateOf(clock) + 1, coordinates[1], strategy)[1]
                  ELSE r = None]_vars

\* C10's case: today's schedule is computed and all past, the coordinates are
\* set, and the call has returned the fajr the cache holds for tomorrow
C10_RolledToCache ==
  /\ next_prayer # None
  /\ next_prayer[1] # None
  /\ next_prayer[1] = GetNextPrayer
  /\ coordinates # None
  /\ GetTodaySchedule # None
  /\ GetTodaySchedule[1].source = "calculated-fallback"
  /\ \A i \in 1..6 : Prayers(GetTodaySchedule[1])[i][2] <= clock
  /\ cache # None
  /\ next_prayer[1][1].name = "fajr"
  /\ next_prayer[1][1].timestamp = cache[1].prayers[DateKey(DateOf(clock) + 1)].fajr
  /\ next_prayer[1][1].timestamp
       # PrayerTimes(DateOf(clock) + 1, coordinates[1], strategy)[1]

\* C11: whenever get_next_prayer returns a value, its timestamp is strictly after
\* now and its remaining time (the difference and each of the hour, minute and
\* second fields) is not negative, on the same-day and on the roll-over path.
C11_RemainingNonNegative ==
  [][(next_prayer' # next_prayer /\ next_prayer'[1] # None) =>
       LET r == next_prayer'[1][1] IN
       /\ r.timestamp > clock
       /\ r.timestamp - clock >= 0
       /\ \A i \in 1..3 : r.remaining[i] >= 0]_vars

\* the authoritative path applies: the method is "JAKIM" and the cache holds the
\* key of today's local date
CacheHoldsToday ==
  /\ current_method = "JAKIM"
  /\ cache # None
  /\ DateKey(DateOf(clock)) \in DOMAIN cache[1].prayers

\* C12: get_today_schedule returns a schedule tagged "jakim-api", with the six
\* cached times of today's key and the zone name of the zone table (the raw code
\* when the table or the code's entry is absent), exactly when the method is
\* "JAKIM" and the cache holds today's key; every other schedule it returns is
\* tagged "calculated-fallback".
C12_AuthoritativeIffJakimHit ==
  [][today_schedule' # today_schedule =>
       LET r == today_schedule'[1] IN
       /\ CacheHoldsToday =>
            /\ r # None
            /\ r[1].source = "jakim-api"
            /\ LET p == cache[1].prayers[DateKey(DateOf(clock))] IN
               /\ <<r[1].fajr, r[1].syuruk, r[1].dhuhr, r[1].asr, r[1].maghrib, r[1].isha>>
                    = <<p.fajr, p.syuruk, p.dhuhr, p.asr, p.maghrib, p.isha>>
            /\ r[1].zone_name =
                 IF zones # None /\ cache[1].zone \in DOMAIN zones[1]
                 THEN <<zones[1][cache[1].zone].daerah, zones[1][cache[1].zone].negeri>>
                 ELSE <<cache[1].zone>>
       /\ (~CacheHoldsToday /\ r # None) => r[1].source = "calculated-fallback"]_vars

\* C12's case: a call has returned the cached schedule of a zone the table knows
C12_NamedFromTable ==
  /\ today_schedule # None
  /\ today_schedule[1] = GetTodaySchedule
  /\ today_schedule[1] # None
  /\ today_schedule[1][1].source = "jakim-api"
  /\ zones # None
  /\ today_schedule[1][1].zone_name = <<"Kuala Lumpur", "Wilayah Persekutuan">>

\* C13: get_today_schedule returns nothing exactly when the coordinates are
\* unset and the authoritative path does not apply, and the call leaves the
\* engine as it was.
C13_NothingIffNoCoordsNoHit ==
  [][today_schedule' # today_schedule =>
       /\ (today_schedule'[1] = None) <=> (coordinates = None /\ ~CacheHoldsToday)
       /\ UNCHANGED engineVars]_vars

\* C13's case: a call under method "JAKIM", with a cache that lacks today's key
\* and no coordinates, has returned nothing
C13_MissWithoutCoords ==
  /\ today_schedule = Some(None)
  /\ GetTodaySchedule = None
  /\ current_method = "JAKIM"
  /\ cache # None
  /\ coordinates = None

\* C14: when the method is not "JAKIM", get_next_prayer (its roll-over to
\* tomorrow's fajr included) returns what it returns with no cache at all,
\* whatever the cache holds.
C14_NextIgnoresCacheUnlessJakim ==
  [][(next_prayer' # next_prayer /\ current_method # "JAKIM") =>
       next_prayer'[1] =
         NextPrayer(current_method, None, coordinates, strategy, zones, clock, clock)]_vars

\* C15: needs_refetch(lat, lng) is true when there is no cache, true when the
\* cache's month tag differs from the month-year tag of the local date, true
\* when the cache's coordinate is more than 5.0 km from (lat, lng), and false
\* otherwise (at exactly 5.0 km in the current month: false); it leaves the
\* engine as it was.
C15_NeedsRefetch ==
  [][refetch' # refetch =>
       /\ refetch'[1][2] =
            (\/ cache = None
             \/ cache[1].month_hash # MonthTag(DateOf(clock))
             \/ Distance(refetch'[1][1], cache[1].lat_lng) > RefetchRadius)
       /\ UNCHANGED engineVars]_vars

\* C15's case: a call for a place exactly 5 km from the cache's, with a cache
\* of the current month, has returned false
C15_AtRadius ==
  /\ refetch # None
  /\ refetch[1][2] = FALSE
  /\ cache # None
  /\ cache[1].month_hash = MonthTag(DateOf(clock))
  /\ Distance(refetch[1][1], cache[1].lat_lng) = RefetchRadius

\* C17: set_method changes the strategy and the method name only: the cache,
\* the coordinates and the zone table stay as they are, and so does the result
\* of needs_refetch for every coordinate.
C17_SetMethodKeepsCache ==
  [][(current_method' # current_method \/ strategy' # strategy) =>
       /\ cache' = cache
       /\ coordinates' = coordinates
       /\ zones' = zones
       /\ \A c \in Places :
            NeedsRefetch(cache', clock', c) = NeedsRefetch(cache, clock, c)]_vars

\* C17's case: the method was "JAKIM" when a call returned the cached schedule
\* and has been replaced since; the cache is still held and a call of
\* needs_refetch after the change has returned false
C17_MethodReplacedCacheKept ==
  /\ current_method = "MWL"
  /\ strategy = ParamsFor("MWL")
  /\ today_schedule # None
  /\ today_schedule[1] # None
  /\ today_schedule[1][1].source = "jakim-api"
  /\ cache # None
  /\ today_schedule[1][1].zone_code = cache[1].zone
  /\ refetch # None
  /\ refetch[1][2] = FALSE
  /\ GetTodaySchedule # today_schedule[1]


\* C16: whatever the interleaving of the refetch tasks and the queries, the
\* cache is nothing or one whole snapshot (the initial one or one a task gave
\* to update_cache), the schedule a query took from the cache is one snapshot's
\* entry for today under that snapshot's zone, and once update_cache has been
\* called the cache is the snapshot of the call that completed last.
C16_WholeSnapshotLastWins ==
  /\ cache \in {None} \cup {Some(s) : s \in Snapshots}
  /\ last_update # None => cache = last_update
  /\ (today_schedule # None /\ today_schedule[1] # None
        /\ today_schedule[1][1].source = "jakim-api")
       => \E s \in Snapshots :
            /\ today_schedule[1][1].zone_code = s.zone
            /\ DateKey(DateOf(clock)) \in DOMAIN s.prayers
            /\ LET p == s.prayers[DateKey(DateOf(clock))]
                   r == today_schedule[1][1]
               IN <<r.fajr, r.syuruk, r.dhuhr, r.asr, r.maghrib, r.isha>>
                    = <<p.fajr, p.syuruk, p.dhuhr, p.asr, p.maghrib, p.isha>>

\* two tasks run at once: the one spawned second has called update_cache and
\* the cache is its snapshot, the one spawned first has built its snapshot and
\* is about to call update_cache
C16_SecondUpdatedFirstPending ==
  /\ tasks[1].st = "built" /\ tasks[1].lat_lng = 1
  /\ tasks[2].st = "updated" /\ tasks[2].lat_lng = 2
  /\ last_update = Some(SnapB)
  /\ cache = Some(SnapB)


\* the call of generate_random_times is over: it has returned or panicked
GenOver == gen_pc \in {"returned", "panicked"}

\* C18: for every date, generate_random_times returns exactly 3 values, each a
\* time of day from 08:00 to 21:00 (minute 480 to minute 1260) inclusive.
C18_ThreeValuesInRange ==
  GenOver =>
    /\ gen_result # None
    /\ Len(gen_result[1]) = 3
    /\ \A i \in 1..3 : MinuteOfDay(gen_result[1][i]) \in min_minutes..max_minutes

\* C19: for every date, the values generate_random_times returns are strictly
\* ascending.
C19_StrictlyAscending ==
  gen_pc = "returned" =>
    \A i \in 2..Len(gen_result[1]) :
      MinuteOfDay(gen_result[1][i]) > MinuteOfDay(gen_result[1][i - 1])

\* C20: in the values generate_random_times returns, each value is at least 90
\* minutes after the one before it, or it is the 21:00 ceiling (minute 1260).
C20_GapOrCeiling ==
  gen_pc = "returned" =>
    \A i \in 2..Len(gen_result[1]) :
      \/ MinuteOfDay(gen_result[1][i]) >= MinuteOfDay(gen_result[1][i - 1]) + MinGap
      \/ MinuteOfDay(gen_result[1][i]) = max_minutes


C22_OneSignalPerMinute ==
  [][reminder_trigger' > reminder_trigger =>
       /\ SecondOf(now) = 0
       /\ reminder_trigger' = reminder_trigger + 1
       /\ reminded # Some(<<DateOf(now), HourMinute(now)>>)]_vars


\* C23: a poisoned mutex of the engine does not end the tick loop: the ticker
\* goes on to run later ticks.
C23_TickLoopSurvivesPoison == pc # "dead"


\* C24: on a tick's steps that find no schedule (the coordinates are unset and
\* the cache does not apply), the beginning of the tick changes triggered_today
\* by the day-rollover clear only, the display step emits nothing, and the
\* trigger step fires no alert, leaves triggered_today as it is and goes on to
\* the reminder step, from where the loop reaches the next tick.
C24_NoDataNoEffects ==
  [][/\ (pc = "idle" /\ pc' = "display"
         /\ TodaySchedule(current_method, cache, coordinates, strategy, zones,
                          clock') = None)
        => triggered_today' = IF IsNewDay(last_date, DateOf(clock')) THEN {}
                              ELSE triggered_today
     /\ (pc = "display" /\ pc' # "display" /\ GetTodaySchedule = None)
        => (~displayed' /\ pc' = "trigger" /\ UNCHANGED triggered_today)
     /\ (pc = "trigger" /\ pc' # "trigger" /\ GetTodaySchedule = None)
        => /\ pc' = "reminder"
           /\ UNCHANGED <<triggered_today, notified, played>>
           /\ notified = {} /\ played = {}
     /\ (pc = "reminder" /\ pc' # "reminder") => pc' = "idle"]_vars

\* the trigger step of this tick found no schedule, in a program that has fired
\* an alert before
C24_NoDataAfterAlert ==
  /\ pc = "reminder"
  /\ schedule = None
  /\ GetTodaySchedule = None
  /\ triggered_today # {}


\* C25: no thread holds a guard of one of the engine's mutexes while a call of
\* a collaborator (fetch, save, emit, tray title, notification, audio) is in
\* progress; so a thread that waits for a mutex never waits for a thread that
\* is inside such a call: not for the task's fetch, not for one another.
C25_NoGuardAcrossCall ==
  /\ \A t \in Threads : InCall(t) => held[t] = {}
  /\ \A t, u \in Threads, l \in HeldByAny :
       (WantsLock(t, l) /\ l \in held[u]) => ~InCall(u)
  /\ \A t, u \in Threads : t # u => held[t] \cap held[u] = {}

\* the task's fetch is in flight, the command is about to lock the coordinates
\* and the ticker holds guards of its own
C25_FetchInFlight ==
  /\ InCall("task") /\ Head(todo["task"]) = Ret("fetch")
  /\ WantsLock("command", "coordinates")
  /\ held["ticker"] # {}


\* C26: every update_coordinates command, every update_calculation_method
\* command and every refetch that has installed a cache emits
\* "prayers-refreshed": the schedule each of them resolved last was there to emit.
C26_EveryChangeNotified ==
  today_schedule # None => EmitsRefreshed(today_schedule[1])


\* C27: every schedule get_today_schedule returns, taken from the cache or
\* computed, has its six timestamps non-decreasing in the order fajr, syuruk,
\* dhuhr, asr, maghrib, isha, whatever cache update_cache has installed.
C27_ResolvedNonDecreasing ==
  (today_schedule # None /\ today_schedule[1] # None)
    => \A i \in 1..5 : Prayers(today_schedule[1][1])[i][2]
                          <= Prayers(today_schedule[1][1])[i + 1][2]


\* C28: a tick is a wake exactly when the monotonic time elapsed since the
\* previous tick exceeds WAKE_THRESHOLD_SECS seconds, by any fraction of a
\* second; the first tick, which has no previous tick, is never a wake.  Stated
\* of a tick whose loop body is running.
C28_WakeIffOverThreshold ==
  pc # "idle" =>
    (detected_wake <=>
       (since_last_tick # None
          /\ since_last_tick[1] > WAKE_THRESHOLD_SECS * TicksPerSec))


\* C29: the if body of an event runs on a tick only if the tick's `now` lies in
\* [t, t + 2), t being the event's time in the schedule get_today_schedule
\* returned at that tick, and the event's name was not in triggered_today; the
\* notification and the audio are requested in that if body and nowhere else.
C29_FiresOnlyInWindowAndOnce ==
  [][/\ pc' = "alert" =>
          LET event == Prayers(schedule'[1])[idx'] IN
            /\ now' >= event[2]
            /\ now' < event[2] + TriggerWindow
            /\ event[1] \notin triggered_today
            /\ pc = "trigger" => schedule' = GetTodaySchedule
     /\ \A n \in (notified' \ notified) \cup (played' \ played) :
          pc = "alert" /\ n = Prayers(schedule[1])[idx][1]]_vars

\* an event was notified in the last second of its window
C29_FiredAtWindowEnd ==
  /\ schedule # None
  /\ \E i \in 1..6 :
       /\ Names[i] \in notified
       /\ now = Prayers(schedule[1])[i][2] + TriggerWindow - 1


\* C30: a refetch task whose fetch fails changes neither the engine's cache
\* nor the cache file and starts no other task; a task whose fetch succeeded
\* goes on to update_cache whatever save_cache returned, calls it once with the
\* cache it built, and ends without a second call.
C30_FailureKeepsSuccessUpdatesOnce ==
  [][\A t \in TaskIds :
       /\ (tasks[t].st = "fetching" /\ tasks'[t] = NoTask) =>
            /\ cache' = cache
            /\ persisted' = persisted
            /\ \A u \in TaskIds \ {t} : tasks'[u] = tasks[u]
       /\ (tasks[t].st = "fetched" /\ tasks'[t] # tasks[t]) =>
            tasks'[t].st = "built"
       /\ (tasks[t].st = "built" /\ tasks'[t] # tasks[t]) =>
            /\ tasks'[t].st = "updated"
            /\ cache' = tasks[t].new_cache
            /\ last_update' = tasks[t].new_cache
       /\ (tasks[t].st = "updated" /\ tasks'[t] # tasks[t]) =>
            /\ tasks'[t] = NoTask
            /\ cache' = cache
            /\ last_update' = last_update]_vars

\* the only running task has called update_cache with the cache it built, and
\* the cache file is unreadable: the last save_cache call had failed
C30_UpdatedThoughNotSaved ==
  /\ tasks[1].st = "updated"
  /\ \A u \in TaskIds \ {1} : tasks[u] = NoTask
  /\ cache = tasks[1].new_cache
  /\ persisted = None


\* C31: in the gap loop the subtraction times[i] - times[i - 1] never underflows:
\* for every sorted triple of candidates the walk, with the values it has
\* already pushed, always finds times[i] >= times[i - 1], so it neither panics
\* nor wraps.
C31_GapWalkNeverUnderflows ==
  gen_pc = "sorted" => GapLoop(times, 1, TRUE) # None


\* C32: with ticks one second apart, the schedule and the local date unchanged,
\* every event whose time t is still to come on this date (and before the
\* Horizon, where the model's clock stops) is fired: the if
\* body of its name runs in a tick whose `now` lies in [t, t + 2); and its
\* name is not in triggered_today before that, so it runs once.
C32_ReachedEventFires ==
  /\ \A i \in 1..6 :
       (/\ pc = "idle"
        /\ GetTodaySchedule # None
        /\ clock < Prayers(GetTodaySchedule[1])[i][2]
        /\ DateOf(Prayers(GetTodaySchedule[1])[i][2]) = DateOf(clock)
        /\ Prayers(GetTodaySchedule[1])[i][2] < Horizon)
         ~> (/\ pc = "alert"
             /\ idx = i
             /\ schedule = GetTodaySchedule
             /\ now >= Prayers(schedule[1])[i][2]
             /\ now < Prayers(schedule[1])[i][2] + TriggerWindow)
  /\ [][(pc' = "alert" /\ (pc # "alert" \/ idx' # idx))
          => Names[idx'] \notin triggered_today]_vars
  /\ [][triggered_today \subseteq triggered_today'
          \/ last_date' # last_date]_vars

\* dhuhr fires at its time in a run that has fired fajr and syuruk before
C32_DhuhrFiredOnTime ==
  /\ pc = "alert"
  /\ Names[idx] = "dhuhr"
  /\ now = schedule[1].dhuhr
  /\ {"fajr", "syuruk"} \subseteq triggered_today


\* C33: an event whose time lies after the `now` of one tick and not after the
\* `now` of the next tick, both on the same local date, is in triggered_today
\* when the later tick is over, whatever the gap between the two.
C33_PassedEventRecorded ==
  (/\ pc = "idle"
   /\ before_tick # None
   /\ DateOf(before_tick[1].now) = DateOf(clock)
   /\ GetTodaySchedule # None)
    => \A i \in 1..6 :
         (/\ before_tick[1].now < Prayers(GetTodaySchedule[1])[i][2]
          /\ Prayers(GetTodaySchedule[1])[i][2] <= clock)
           => Names[i] \in triggered_today


\* C34: on a wake tick an event that was not in triggered_today when the tick
\* began and whose window still holds `now` (t <= now < t + 2) is fired in that
\* tick: when the trigger block is over its notification has been requested
\* ("syuruk" has none to request).
C34_WakeKeepsEventsInWindow ==
  (/\ pc = "reminder"
   /\ detected_wake
   /\ before_tick # None
   /\ schedule # None)
    => \A i \in 1..6 :
         (/\ Names[i] # "syuruk"
          /\ Names[i] \notin before_tick[1].triggered
          /\ Prayers(schedule[1])[i][2] <= now
          /\ now < Prayers(schedule[1])[i][2] + TriggerWindow)
           => Names[i] \in notified


\* C35: once every refetch task has ended, whatever the order their save_cache
\* and update_cache calls took, the cache file and the engine's cache hold the
\* same snapshot.
C35_FileEqualsCacheAtRest ==
  (last_update # None /\ \A t \in TaskIds : tasks[t] = NoTask)
    => persisted = cache


\* C36: once every refetch task the coordinate updates have spawned has ended,
\* each after a successful fetch, the cache is the one fetched for the last
\* update that needed a refetch: it is not too far from the engine's
\* coordinates, so needs_refetch for them is not true because of distance.
C36_CacheNearCoordinatesAtRest ==
  (/\ last_update # None
   /\ \A t \in TaskIds : tasks[t] = NoTask)
    => /\ coordinates # None /\ cache # None
       /\ ~TooFar(Distance(coordinates[1], cache[1].lat_lng))

\* C37: when a refetch task has installed the cache it built for the place it
\* was spawned with, needs_refetch for that place, read in the same local
\* month, is false, whatever response the fetch returned: a further
\* update_coordinates at that place spawns no task.
C37_InstalledCacheNeedsNoRefetch ==
  \A t \in TaskIds :
    (tasks[t].st = "updated" /\ cache = tasks[t].new_cache)
      => ~NeedsRefetch(cache, clock, tasks[t].lat_lng)

\* C38: concurrent calls of the engine's operations never deadlock.  A thread
\* only locks a mutex that comes later than every mutex it holds in one fixed
\* order (coordinates, strategy, current_method, cache, zones), so no cycle of
\* waiting threads forms; while a call is in progress some thread can take its
\* next step; and every call that has begun returns.
C38_NoDeadlockEveryCallReturns ==
  LET order == <<"coordinates", "strategy", "current_method", "cache", "zones">>
      Rank(l) == CHOOSE i \in 1..5 : order[i] = l
  IN  /\ [](\A t \in Threads, l \in {order[i] : i \in 1..5} :
             WantsLock(t, l) => \A h \in held[t] : Rank(h) < Rank(l))
      /\ []((\E t \in Threads : todo[t] # <<>>)
             => \E t \in Threads :
                  /\ todo[t] # <<>>
                  /\ (Head(todo[t])[1] = "lock"
                        => Head(todo[t])[2] \notin HeldByAny))
      /\ \A t \in Threads : (todo[t] # <<>>) ~> (todo[t] = <<>>)

\* set_method holds strategy and waits for current_method, which
\* get_today_schedule holds in another thread, while a third thread holds
\* coordinates and waits for strategy
C38_ThreeCallsWaitInARow ==
  /\ held["command"] = {"strategy"} /\ WantsLock("command", "current_method")
  /\ "current_method" \in held["ticker"]
  /\ held["task"] = {"coordinates"} /\ WantsLock("task", "strategy")

\* C39: a get_today_schedule call that has returned while or after a set_method
\* call ran returns the schedule of the method and the strategy as they both
\* were before that call, or the one of both as the call leaves them.
C39_SetMethodLooksAtomic ==
  (calls.get_pc = "returned" /\ calls.before # None)
    => calls.result[1] \in
         {TodaySchedule(calls.before[1][1], cache, coordinates, calls.before[1][2],
                        zones, clock),
          TodaySchedule(calls.method_name, cache, coordinates,
                        ParamsFor(calls.method_name), zones, clock)}

\* C40: when get_next_prayer rolls over (none of the six times it scanned is
\* after now), the fajr it returns is the one of the local date that follows
\* the date of the schedule it scanned, the date get_today_schedule read, also
\* when the clock has passed midnight between that reading and the one of now.
C40_RollOverFollowsScannedDate ==
  [][(/\ calls.lookup # None
      /\ calls'.lookup = None
      /\ next_prayer'[1] # None
      /\ ScanFrom(Prayers(TodaySchedule(current_method, cache, coordinates, strategy,
                                        zones, calls.lookup[1])[1]), 1, clock) = 0)
       => next_prayer'[1][1].timestamp =
            TomorrowFajr(cache, coordinates, strategy, calls.lookup[1])[1]]_vars

=============================================================================
